---- MODULE Spec2Model ----
(***************************************************************************)
(* Model of the conversational orchestration core of ALEX-DEV-v1:          *)
(*   - ScoreEngine (updateScore, deriveStage)                              *)
(*   - CostTracker (calculateCost, isOverBudget)                           *)
(*   - the backend adapters and the LLMRouter (ordered fallback)           *)
(*   - TagMessage.execute and GenerateResponse.execute over the            *)
(*     conversation store and the event log                                *)
(*                                                                         *)
(* The specifications share the module's variables:                        *)
(*   SpecScore   : the pure functions applied to bounded inputs            *)
(*   SpecCost    : a CostTracker built from a configuration, then called   *)
(*   SpecTrust   : the trustLevel column under successive tag-messages     *)
(*   SpecLedger  : the score columns under successive tag-messages         *)
(*   SpecRouter  : one LLMRouter call, one await at a time                 *)
(*   Spec        : orchestrator invocations over the store, one at a time  *)
(*   SpecOverlap : two invocations for one user interleaved at their awaits*)
(*   SpecHistory : GenerateResponse's history over a long event log        *)
(***************************************************************************)
EXTENDS Integers, Sequences, FiniteSets, TLC

VARIABLES
    \* ---- SpecScore: inputs and outputs of the pure functions
    fPc,            \* "input" | "scored"
    fCurrent,       \* updateScore's `current`
    fSignals,       \* updateScore's `signals`
    fScore,         \* value returned by updateScore
    fStage,         \* deriveStage of the returned value
    \* ---- SpecTrust: the trustLevel column of one conversation
    tTrust,         \* persisted trustLevel
    tPrev,          \* trustLevel the last tag-message read
    tSignals,       \* signals of the last tag-message's classification
    \* ---- SpecLedger: the score columns of one conversation
    gRow,           \* the persisted ConversationState row
    gPrev,          \* the row the last tag-message read
    gGains,         \* history: sum of the positive score changes so far
    gCount,         \* number of tag-messages completed
    gUpdates,       \* history: number of updates of the row that succeeded
    \* ---- SpecCost: one CostTracker instance
    costTracker,    \* the instance's fields, once constructed
    kCall,          \* the last method call: its argument and its result
    \* ---- SpecReplay: one script of requests run against two fresh stores
    script,         \* the requests, each with the router's result for it
    storeA,         \* first store: rows, events, requests replayed so far
    storeB,         \* second store
    \* ---- SpecTenants: the TenantManager singleton
    tenants,        \* its Map: key (id or slug) -> reference to an object
    tenantHeap,     \* the Tenant objects, by reference
    tenantCalls,    \* number of calls made on the manager
    constitutions,  \* ids the ConstitutionManager has loaded from disk
    \* ---- SpecQuota: the daily token quota of /whatsapp/chat
    userCostTracker,  \* its Map: userId -> tracker object
    clock,          \* the time new Date() reads, in hours
    qCall,          \* the last checkTokenLimit call: arguments and result
    \* ---- SpecRouter: one call of LLMRouter.classify / generateResponse
    rVariant,       \* "list" (providers array) | "primaryFallback"
    rOp,            \* "classify" | "generateResponse"
    rProviders,     \* the configured ordered list of adapters (kinds)
    rOutcomes,      \* per backend: does its underlying model call work
    rPc,            \* "idle" | "loop" | "awaiting" | "returned" | "thrown"
    rIdx,           \* position of the for-loop (1-based)
    rLastError,     \* the router's lastError local
    rInFlight,      \* backends whose call is pending (awaited, not settled)
    rInvoked,       \* history: backends invoked, in order of invocation
    rWarnings,      \* history: console.warn calls (the backend that failed)
    rResult,        \* value returned / error thrown to the caller
    \* ---- Spec: orchestrators over the store
    providers,      \* the router's configured list (injected at bootstrap)
    conversations,  \* ConversationState rows, keyed by userId (unique)
    events,         \* ConversationEvent rows in creation order
    inv,            \* per request slot: the invocation's locals and position
    started,        \* number of invocations started so far
    failures        \* number of store calls that have been made to fail

gvars == <<gRow, gPrev, gGains, gCount, gUpdates>>
kvars == <<costTracker, kCall>>
pvars == <<script, storeA, storeB>>
mvars == <<tenants, tenantHeap, tenantCalls, constitutions>>
qvars == <<userCostTracker, clock, qCall>>
xvars == <<mvars, qvars>>
fvars == <<fPc, fCurrent, fSignals, fScore, fStage,
          tTrust, tPrev, tSignals, gvars, kvars, pvars, xvars>>
rvars == <<rVariant, rOp, rProviders, rOutcomes, rPc, rIdx, rLastError,
           rInFlight, rInvoked, rWarnings, rResult>>
svars == <<providers, conversations, events, inv, started, failures>>
vars  == <<fvars, rvars, svars>>

-----------------------------------------------------------------------------
(* Bounds of the model *)

MaxSignals == 2         \* longest signal list drawn for updateScore
MaxProviders == 3       \* longest generic provider list drawn for the router
MaxMessages == 2        \* invocations started in one behaviour of Spec
MaxFailures == 1        \* store calls made to fail in one behaviour of Spec
MaxTagged == 4          \* tag-messages run in one behaviour of SpecLedger
MaxTokens == 50         \* largest tokensUsed drawn for calculateCost
MaxLogged == 12         \* requests served before a behaviour of SpecHistory

-----------------------------------------------------------------------------
(* JavaScript numbers: integers, plus NaN (a value outside every range the  *)
(* model uses; every comparison with it is false, as in JavaScript).        *)

NaN == -1000000

JsLt(a, b) == a # NaN /\ b # NaN /\ a < b
JsGt(a, b) == a # NaN /\ b # NaN /\ a > b

\* Math.max(0, x): NaN if x is NaN
MathMax0(x) == IF x = NaN THEN NaN ELSE IF x > 0 THEN x ELSE 0

-----------------------------------------------------------------------------
(* ScoreEngine *)

\* Own keys of the `weights` object literal
WeightKeys == {"DEBUG_REQUEST", "REFACTOR_REQUEST", "ARCHITECTURE_DESIGN",
               "OPTIMIZATION_SUGGESTION", "TECHNICAL_BLOCKER",
               "CLARIFICATION_PROVIDED"}

\* Property names every object literal inherits from Object.prototype:
\* weights[s] is then a function, or for __proto__ the prototype object
\* (truthy, not a number)
InheritedKeys ==
    {"constructor", "__defineGetter__", "__defineSetter__",
     "hasOwnProperty", "__lookupGetter__", "__lookupSetter__",
     "isPrototypeOf", "propertyIsEnumerable", "toString", "valueOf",
     "__proto__", "toLocaleString"}

\* the inherited names drawn as signals
DrawnInheritedKeys == {"constructor", "toString"}

\* Signal names the other adapters' prompts ask for; not keys of `weights`
ForeignSignals == {"BUY_INTENT", "OBJECTION", "POSITIVE_EMOTION"}

SignalNames == WeightKeys \cup DrawnInheritedKeys \cup ForeignSignals

\* variant of weights: the entries of ARCHITECTURE_DESIGN and
\* REFACTOR_REQUEST are exchanged
weights_swapped(s) ==
    CASE s = "DEBUG_REQUEST"           -> 15
      [] s = "REFACTOR_REQUEST"        -> 30
      [] s = "ARCHITECTURE_DESIGN"     -> 20
      [] s = "OPTIMIZATION_SUGGESTION" -> 25
      [] s = "TECHNICAL_BLOCKER"       -> -10
      [] s = "CLARIFICATION_PROVIDED"  -> 10

\* this.weights: the static table
weights(s) ==
    CASE s = "DEBUG_REQUEST"           -> 15
      [] s = "REFACTOR_REQUEST"        -> 20
      [] s = "ARCHITECTURE_DESIGN"     -> 30
      [] s = "OPTIMIZATION_SUGGESTION" -> 25
      [] s = "TECHNICAL_BLOCKER"       -> -10
      [] s = "CLARIFICATION_PROVIDED"  -> 10

\* (this.weights[s] || 0): the own weight, 0 for an absent key, and the
\* inherited function for a name found on the prototype chain
WeightOrZero(s) ==
    IF s \in WeightKeys THEN [isNumber |-> TRUE, n |-> weights(s)]
    ELSE IF s \in InheritedKeys THEN [isNumber |-> FALSE, n |-> 0]
    ELSE [isNumber |-> TRUE, n |-> 0]

\* signals.reduce((acc, s) => acc + (this.weights[s] || 0), 0):
\* number + number adds; anything + function concatenates into a string,
\* and a string accumulator stays a string
RECURSIVE ReduceWeights(_, _)
ReduceWeights(signals, acc) ==
    IF signals = <<>> THEN acc
    ELSE LET w == WeightOrZero(Head(signals))
         IN  ReduceWeights(Tail(signals),
                 IF acc.isNumber /\ w.isNumber
                 THEN [isNumber |-> TRUE, n |-> acc.n + w.n]
                 ELSE [isNumber |-> FALSE, n |-> 0])

\* Math.max(0, current + delta); current + <string> is a string that does
\* not parse as a number, so Math.max yields NaN
updateScore(current, signals) ==
    LET delta == ReduceWeights(signals, [isNumber |-> TRUE, n |-> 0])
    IN  IF current = NaN \/ ~delta.isNumber THEN NaN
        ELSE MathMax0(current + delta.n)

\* variant of deriveStage: the second and third stage names are exchanged
deriveStage_exchanged(score) ==
    IF JsLt(score, 25) THEN "triage"
    ELSE IF JsLt(score, 50) THEN "implementation"
    ELSE IF JsLt(score, 80) THEN "analysis"
    ELSE "review"

deriveStage(score) ==
    IF JsLt(score, 25) THEN "triage"
    ELSE IF JsLt(score, 50) THEN "analysis"
    ELSE IF JsLt(score, 80) THEN "implementation"
    ELSE "review"

-----------------------------------------------------------------------------
(***************************************************************************)
(* JavaScript numbers that hold money are IEEE-754 doubles.  A double is   *)
(* modelled exactly: [neg, m, e] stands for (-1)^neg * m * 2^e, where m is *)
(* a natural number written as its limbs in base 2^14, least significant   *)
(* first, and 2^52 <= m < 2^53 (four limbs); zero is [neg |-> FALSE,       *)
(* m |-> <<>>, e |-> 0].  The exponent range of a double is never          *)
(* approached by the amounts of the program, so subnormals, infinities and *)
(* the sign of zero (-0 === 0, and JSON writes both as 0) are left out.    *)
(* Every operation rounds to nearest, ties to even, as the hardware does.  *)
(***************************************************************************)
LimbBase == 2^14
MantissaBits == 52 + 1

RECURSIVE BitLength(_)
BitLength(n) == IF n = 0 THEN 0 ELSE 1 + BitLength(n \div 2)

LimbBits == BitLength(LimbBase) - 1

\* natural numbers of any size: little-endian limbs, no leading zero limb
RECURSIVE BigTrim(_)
BigTrim(a) ==
    IF a = <<>> THEN <<>>
    ELSE IF a[Len(a)] = 0 THEN BigTrim(SubSeq(a, 1, Len(a) - 1))
    ELSE a

RECURSIVE BigOfInt(_)
BigOfInt(n) ==
    IF n = 0 THEN <<>>
    ELSE <<n % LimbBase>> \o BigOfInt(n \div LimbBase)

Limb(a, i) == IF i <= Len(a) THEN a[i] ELSE 0

\* the limbs of a + b from limb i on, with the carry into limb i
RECURSIVE BigAddFrom(_, _, _, _)
BigAddFrom(a, b, i, carry) ==
    IF i > Len(a) /\ i > Len(b)
    THEN IF carry = 0 THEN <<>> ELSE <<carry>>
    ELSE <<(Limb(a, i) + Limb(b, i) + carry) % LimbBase>>
             \o BigAddFrom(a, b, i + 1,
                           (Limb(a, i) + Limb(b, i) + carry) \div LimbBase)

BigAdd(a, b) == BigAddFrom(a, b, 1, 0)

\* the limbs of a - b from limb i on, for a >= b, with the borrow from
\* limb i
RECURSIVE BigSubFrom(_, _, _, _)
BigSubFrom(a, b, i, borrow) ==
    IF i > Len(a) THEN <<>>
    ELSE <<(Limb(a, i) - Limb(b, i) - borrow + LimbBase) % LimbBase>>
             \o BigSubFrom(a, b, i + 1,
                           IF Limb(a, i) - Limb(b, i) - borrow < 0
                           THEN 1 ELSE 0)

BigSub(a, b) == BigTrim(BigSubFrom(a, b, 1, 0))

RECURSIVE BigCmpAt(_, _, _)
BigCmpAt(a, b, i) ==
    IF i = 0 THEN 0
    ELSE IF a[i] < b[i] THEN 0 - 1
    ELSE IF a[i] > b[i] THEN 1
    ELSE BigCmpAt(a, b, i - 1)

\* -1, 0 or 1 as a < b, a = b or a > b
BigCmp(a, b) ==
    IF Len(a) < Len(b) THEN 0 - 1
    ELSE IF Len(a) > Len(b) THEN 1
    ELSE BigCmpAt(a, b, Len(a))

\* the limbs of a * k from limb i on, for a small k (k <= 2^16), with the
\* carry into limb i
RECURSIVE BigMulSmallFrom(_, _, _, _)
BigMulSmallFrom(a, k, i, carry) ==
    IF i > Len(a) THEN BigOfInt(carry)
    ELSE <<(a[i] * k + carry) % LimbBase>>
             \o BigMulSmallFrom(a, k, i + 1, (a[i] * k + carry) \div LimbBase)

BigMulSmall(a, k) == BigTrim(BigMulSmallFrom(a, k, 1, 0))

RECURSIVE BigMulFrom(_, _, _)
BigMulFrom(a, b, i) ==
    IF i > Len(b) THEN <<>>
    ELSE BigAdd(BigMulSmall(a, b[i]), <<0>> \o BigMulFrom(a, b, i + 1))

BigMul(a, b) == BigTrim(BigMulFrom(a, b, 1))

\* long division of a by a small d (d <= 2^16) from limb i down: rem is
\* the remainder so far, q the limbs of the quotient so far
RECURSIVE BigDivSmallFrom(_, _, _, _, _)
BigDivSmallFrom(a, d, i, rem, q) ==
    IF i = 0 THEN [q |-> BigTrim(q), r |-> rem]
    ELSE BigDivSmallFrom(a, d, i - 1, (rem * LimbBase + a[i]) % d,
                         <<(rem * LimbBase + a[i]) \div d>> \o q)

\* quotient and remainder of a by d
BigDivSmall(a, d) == BigDivSmallFrom(a, d, Len(a), 0, <<>>)

Zeros(n) == [i \in 1..n |-> 0]

\* a * 2^k
BigShl(a, k) ==
    IF a = <<>> THEN <<>>
    ELSE Zeros(k \div LimbBits) \o BigMulSmall(a, 2^(k % LimbBits))

\* what is left of a shift to the right, once whole limbs have gone
BigShrBits(x, lost) == [q |-> x.q, sticky |-> lost \/ x.r # 0]

\* a \div 2^k, and whether a one was shifted out
BigShr(a, k) ==
    BigShrBits(BigDivSmall(IF k \div LimbBits >= Len(a) THEN <<>>
                           ELSE SubSeq(a, k \div LimbBits + 1, Len(a)),
                           2^(k % LimbBits)),
               \E i \in 1..Len(a) : i <= k \div LimbBits /\ a[i] # 0)

BigBitLength(a) ==
    IF a = <<>> THEN 0
    ELSE LimbBits * (Len(a) - 1) + BitLength(a[Len(a)])

BigOdd(a) == a # <<>> /\ a[1] % 2 = 1

DblZero == [neg |-> FALSE, m |-> <<>>, e |-> 0]

\* rounding, last step: r is the rounded mantissa at exponent e; rounding
\* up may have carried into a 54th bit
DblRoundCarry(neg, r, e) ==
    IF BigBitLength(r) > MantissaBits
    THEN [neg |-> neg, m |-> BigShr(r, 1).q, e |-> e + 1]
    ELSE [neg |-> neg, m |-> r, e |-> e]

\* rounding to nearest, ties to even: q holds the 53 bits kept, half is
\* the first bit dropped, sticky whether a later one was set
DblRoundTie(neg, q, e, half, sticky) ==
    DblRoundCarry(neg,
                  IF half /\ (sticky \/ BigOdd(q)) THEN BigAdd(q, <<1>>)
                  ELSE q,
                  e)

\* x is the mantissa with 54 bits left: the 53 kept and the first dropped
DblRoundCut(neg, x, e, sticky) ==
    DblRoundTie(neg, BigShr(x.q, 1).q, e, BigOdd(x.q), sticky \/ x.sticky)

\* k is the number of bits m has too many
DblRoundBits(neg, m, e, sticky, k) ==
    IF k <= 0
    THEN [neg |-> neg, m |-> BigShl(m, 0 - k), e |-> e + k]
    ELSE DblRoundCut(neg, BigShr(m, k - 1), e + k, sticky)

\* the double nearest to (-1)^neg * (m + f) * 2^e, ties to even, where
\* 0 < f < 1 if sticky and f = 0 otherwise (m of at least 55 bits if sticky)
DblRound(neg, m, e, sticky) ==
    IF m = <<>> THEN DblZero
    ELSE DblRoundBits(neg, m, e, sticky, BigBitLength(m) - MantissaBits)

\* the double n * 2^k for an integer n
DblScale(n, k) ==
    DblRound(n < 0, BigOfInt(IF n < 0 THEN 0 - n ELSE n), k, FALSE)

\* Number(n) for an integer n
DblOfInt(n) == DblScale(n, 0)

\* the quotient is rounded with the remainder as the sticky bit
DblDivRound(x, y, shift) == DblRound(x.neg, y.q, x.e - shift, y.r # 0)

\* x / d for a double x and a positive integer d (d <= 2^16)
DblDivInt(x, d) ==
    DblDivRound(x, BigDivSmall(BigShl(x.m, 2 * LimbBits), d), 2 * LimbBits)

\* x * y
DblMul(x, y) ==
    DblRound(x.neg # y.neg, BigMul(x.m, y.m), x.e + y.e, FALSE)

\* -1, 0 or 1 as |x| < |y|, |x| = |y| or |x| > |y|
DblCmpAbs(x, y) ==
    IF x.m = <<>> \/ y.m = <<>>
    THEN (IF x.m = y.m THEN 0 ELSE IF x.m = <<>> THEN 0 - 1 ELSE 1)
    ELSE IF x.e < y.e THEN 0 - 1
    ELSE IF x.e > y.e THEN 1
    ELSE BigCmp(x.m, y.m)

\* -1, 0 or 1 as x < y, x = y or x > y
DblCmp(x, y) ==
    IF x.neg # y.neg THEN (IF x.neg THEN 0 - 1 ELSE 1)
    ELSE (IF x.neg THEN 0 - 1 ELSE 1) * DblCmpAbs(x, y)

DblGe(x, y) == DblCmp(x, y) >= 0
DblGt(x, y) == DblCmp(x, y) > 0
DblNeg(x) == IF x.m = <<>> THEN x ELSE [x EXCEPT !.neg = ~x.neg]

\* the operand of larger magnitude is shifted left by at most this many
\* bits, the other one right by the rest
GuardBits == 4 * LimbBits

\* a * 2^e is the larger operand and b.q * 2^e the smaller one, b.sticky
\* telling whether bits of it were shifted out: a - (b.q + f) with
\* 0 < f < 1 is (a - b.q - 1) + (1 - f)
DblAddAligned(neg, same, a, b, e) ==
    DblRound(neg,
             IF same THEN BigAdd(a, b.q)
             ELSE BigSub(a, IF b.sticky THEN BigAdd(b.q, <<1>>) ELSE b.q),
             e, b.sticky)

\* big + small for |big| >= |small|, both not zero; big is shifted left by
\* `up` bits
DblAddShifted(big, small, up) ==
    DblAddAligned(big.neg, big.neg = small.neg, BigShl(big.m, up),
                  BigShr(small.m, big.e - small.e - up), big.e - up)

DblAddOrdered(pair) ==
    DblAddShifted(pair[1], pair[2],
                  IF pair[1].e - pair[2].e < GuardBits
                  THEN pair[1].e - pair[2].e ELSE GuardBits)

\* x + y
DblAdd(x, y) ==
    IF x.m = <<>> THEN y
    ELSE IF y.m = <<>> THEN x
    ELSE DblAddOrdered(IF DblCmpAbs(x, y) >= 0 THEN <<x, y>> ELSE <<y, x>>)

\* parseFloat of a decimal string: the double nearest to digits / 10^places
parseFloat(digits, places) == DblDivInt(DblOfInt(digits), 10^places)

-----------------------------------------------------------------------------
(* CostTracker *)

\* parseFloat(process.env.COST_PER_1K_TOKENS || "0.02")
costPer1kTokens == parseFloat(2, 2)

\* parseFloat(process.env.BUDGET_THRESHOLD || "10.0")
budgetThreshold == parseFloat(100, 1)

\* new CostTracker(config): both fields are copied from the configuration
CostTracker_new(config) ==
    [costPer1kTokens |-> config.costPer1kTokens,
     budgetThreshold |-> config.budgetThreshold]

\* (tokensUsed / 1000) * this.costPer1kTokens: a division and then a
\* multiplication of doubles, each rounded
CostTracker_calculateCost(self, tokensUsed) ==
    DblMul(DblDivInt(DblOfInt(tokensUsed), 1000), self.costPer1kTokens)

\* variant of CostTracker_isOverBudget: the boundary is not over budget
CostTracker_isOverBudget_strict(self, totalCost) ==
    DblGt(totalCost, self.budgetThreshold)

\* totalCost >= this.budgetThreshold
CostTracker_isOverBudget(self, totalCost) ==
    DblGe(totalCost, self.budgetThreshold)

\* the instance built at bootstrap from env
DeployedCostTracker ==
    CostTracker_new([costPer1kTokens |-> costPer1kTokens,
                     budgetThreshold |-> budgetThreshold])

\* this.costTracker.calculateCost(tokensUsed)
calculateCost(tokensUsed) ==
    CostTracker_calculateCost(DeployedCostTracker, tokensUsed)

\* this.costTracker.isOverBudget(totalCost)
isOverBudget(totalCost) ==
    CostTracker_isOverBudget(DeployedCostTracker, totalCost)

-----------------------------------------------------------------------------
(* Backend adapters.  `underlying` is the fate of the adapter's model call  *)
(* (transport and JSON.parse together): "ok" or "fail"; `payload` is what a *)
(* working call yields; k is the backend's position, used to tell errors    *)
(* apart.                                                                   *)

AdapterKinds == {"claude", "openai", "deepseek", "gemini"}

Return(v) == [kind |-> "return", value |-> v]
Throw(e)  == [kind |-> "throw", error |-> e]

BackendError(k) == [message |-> "backend failed", backend |-> k]
NoProvidersError == [message |-> "No providers available", backend |-> 0]

\* ClaudeAdapter, OpenAIAdapter, DeepSeekAdapter: no try/catch around the
\* SDK call or JSON.parse, so a failure rejects the returned promise
PropagatingAdapter(k, underlying, payload) ==
    IF underlying = "ok" THEN Return(payload) ELSE Throw(BackendError(k))

\* GeminiAdapter.classify:
\* catch -> { tags: ["ERROR"], signals: [], tokensUsed: 0 }
GeminiErrorClassification ==
    [tags |-> <<"ERROR">>, signals |-> <<>>, tokensUsed |-> 0]

GeminiAdapter_classify(k, underlying, payload) ==
    IF underlying = "ok" THEN Return(payload)
    ELSE Return(GeminiErrorClassification)

\* GeminiAdapter.generateResponse: catch -> the canned apology, tokensUsed 0
GeminiApology == [text |-> "Lo siento Gabriel, tuve un micro-corte",
                  tokensUsed |-> 0]

GeminiAdapter_generateResponse(k, underlying, payload) ==
    IF underlying = "ok" THEN Return(payload)
    ELSE Return(GeminiApology)

\* provider.classify(input) / provider.generateResponse(input) on the
\* adapter of the given kind
ProviderCall(kind, op, k, underlying, payload) ==
    IF kind = "gemini"
    THEN IF op = "classify"
         THEN GeminiAdapter_classify(k, underlying, payload)
         ELSE GeminiAdapter_generateResponse(k, underlying, payload)
    ELSE PropagatingAdapter(k, underlying, payload)

\* bootstrap: Claude -> Gemini Pro -> ChatGPT -> DeepSeek -> Gemini Flash
DeployedProviders == <<"claude", "gemini", "openai", "deepseek", "gemini">>

-----------------------------------------------------------------------------
(* LLMRouter as a function of its backends' fates: the for-loop of          *)
(* classify / generateResponse run to completion.  payloads[k] is what      *)
(* backend k yields when its call works.                                    *)

\* variant of NextProvider: the loop tries the failed provider again
NextProvider_retry(i) == i

\* the for-of loop advances to the next provider after a caught failure
NextProvider(i) == i + 1

\* variant of CaughtError: only the first failure is remembered
CaughtError_keepFirst(lastError, error) ==
    IF lastError = NoProvidersError THEN error ELSE lastError

\* catch (error) { lastError = error as Error; ... }
CaughtError(lastError, error) == error

\* variant of LogWarning: the failure is swallowed without a log line
LogWarning_silent(warnings, i) == warnings

\* console.warn("... Provider failed, trying next..."): one line per caught
\* failure; the history records which backend's failure it reports
LogWarning(warnings, i) == Append(warnings, i)

RECURSIVE RouterLoop(_, _, _, _, _, _)
RouterLoop(provs, op, outcomes, payloads, i, lastError) ==
    IF i > Len(provs) THEN Throw(lastError)
    ELSE LET r == ProviderCall(provs[i], op, i, outcomes[i], payloads[i])
         IN  IF r.kind = "return" THEN r
             ELSE RouterLoop(provs, op, outcomes, payloads,
                             NextProvider(i), CaughtError(lastError, r.error))

LLMRouter_call(provs, op, outcomes, payloads) ==
    RouterLoop(provs, op, outcomes, payloads, 1, NoProvidersError)

-----------------------------------------------------------------------------
(* SpecRouter: one LLMRouter call, await by await.                          *)

\* what backend k yields in this call when its model call works
RouterPayload(op, k) ==
    IF op = "classify"
    THEN [tags |-> <<"TAG">>, signals |-> <<>>, tokensUsed |-> 100 * k]
    ELSE [text |-> "reply", tokensUsed |-> 100 * k]

\* the settled outcome of the pending call on backend i
Settled(i) ==
    ProviderCall(rProviders[i], rOp, i, rOutcomes[i], RouterPayload(rOp, i))

ProviderLists ==
    UNION {[1..n -> AdapterKinds] : n \in 0..MaxProviders}
        \cup {DeployedProviders}

TInit == tTrust = 50 /\ tPrev = 50 /\ tSignals = <<>>

\* no conversation row under study
GInit ==
    /\ gRow = <<>> /\ gPrev = <<>>
    /\ gGains = 0 /\ gCount = 0 /\ gUpdates = 0

\* no CostTracker under study
KInit == costTracker = <<>> /\ kCall = <<>>

\* no replay under study
PInit == script = <<>> /\ storeA = <<>> /\ storeB = <<>>

\* undefined / null
Nil == [nil |-> TRUE]

\* private defaultTenant: Tenant = { id: "default", ... }
DefaultTenant ==
    [id |-> "default", name |-> "Default Tenant", slug |-> "default",
     constitutionId |-> "conversational-programming",
     whatsapp |-> Nil, bitrix |-> Nil,
     limits |-> [dailyTokens |-> 1000, maxTokensPerResponse |-> 150,
                 maxInteractions |-> 100],
     settings |-> <<>>, active |-> TRUE]

\* new TenantManager(): this.tenants.set("default", this.defaultTenant)
TenantManagerInit ==
    /\ tenants = ("default" :> 1)
    /\ tenantHeap = <<DefaultTenant>>
    /\ tenantCalls = 0

\* the constitutions the routes and adapters ask the ConstitutionManager
\* for by name
NamedConstitutions ==
    {"data-labeler", "alex-cerebro-labeling", "talkme-tutor",
     "alex-whatsapp-optimizer", "conversational-programming"}

\* new ConstitutionManager(): loadAll() reads every *.json file of the
\* constitutions directory; what the directory holds is the deployment's
ConstitutionSets ==
    {{}, {"conversational-programming"}, NamedConstitutions,
     NamedConstitutions \cup {"sales"}}

MInit == TenantManagerInit /\ constitutions = NamedConstitutions

\* const userCostTracker = new Map(): no user has asked yet
QInit == userCostTracker = <<>> /\ clock = 0 /\ qCall = <<>>

XInit == MInit /\ QInit

FInit ==
    /\ fPc = "input" /\ fCurrent = 0 /\ fSignals = <<>>
    /\ fScore = 0 /\ fStage = "triage"
    /\ TInit /\ GInit /\ KInit /\ PInit /\ XInit

SInit ==
    /\ providers = DeployedProviders
    /\ conversations = <<>>
    /\ events = <<>>
    /\ inv = <<>>
    /\ started = 0
    /\ failures = 0

RouterInit ==
    /\ rVariant \in {"list", "primaryFallback"}
    /\ rProviders \in ProviderLists
    /\ rOp \in {"classify", "generateResponse"}
    \* the older router takes a primary and an optional fallback and has
    \* classify only
    /\ rVariant = "primaryFallback" =>
           Len(rProviders) \in {1, 2} /\ rOp = "classify"
    /\ rOutcomes \in [1..Len(rProviders) -> {"ok", "fail"}]
    /\ rPc = "idle"
    /\ rIdx = 0
    /\ rLastError = NoProvidersError
    /\ rInFlight = {}
    /\ rInvoked = <<>>
    /\ rWarnings = <<>>
    /\ rResult = Throw(NoProvidersError)

\* entry of classify / generateResponse: let lastError = new Error(...)
RouterEnter ==
    /\ rPc = "idle"
    /\ rPc' = "loop"
    /\ rIdx' = 1
    /\ rLastError' = NoProvidersError
    /\ UNCHANGED <<fvars, svars, rVariant, rOp, rProviders, rOutcomes,
                   rInFlight,
                   rInvoked, rWarnings, rResult>>

\* the loop may invoke a provider only when no awaited call is pending
LoopReady == rPc = "loop"

\* await provider.classify(input) / provider.generateResponse(input):
\* the call is issued and the router suspends on it
RouterInvoke ==
    /\ LoopReady
    /\ rIdx <= Len(rProviders)
    /\ rInFlight' = rInFlight \cup {rIdx}
    /\ rInvoked' = Append(rInvoked, rIdx)
    /\ rPc' = "awaiting"
    /\ UNCHANGED <<fvars, svars, rVariant, rOp, rProviders, rOutcomes, rIdx,
                   rLastError,
                   rWarnings, rResult>>

\* return await ...: the first success is the router's result
RouterReturn ==
    /\ rPc = "awaiting"
    /\ Settled(rIdx).kind = "return"
    /\ rResult' = Settled(rIdx)
    /\ rInFlight' = rInFlight \ {rIdx}
    /\ rPc' = "returned"
    /\ UNCHANGED <<fvars, svars, rVariant, rOp, rProviders, rOutcomes, rIdx,
                   rLastError,
                   rInvoked, rWarnings>>

\* catch (error) { lastError = error; console.warn(...) } and the loop
\* moves on
RouterCatch ==
    /\ rVariant = "list"
    /\ rPc = "awaiting"
    /\ Settled(rIdx).kind = "throw"
    /\ rLastError' = CaughtError(rLastError, Settled(rIdx).error)
    /\ rWarnings' = LogWarning(rWarnings, rIdx)
    /\ rInFlight' = rInFlight \ {rIdx}
    /\ rIdx' = NextProvider(rIdx)
    /\ rPc' = "loop"
    /\ UNCHANGED <<fvars, svars, rVariant, rOp, rProviders, rOutcomes,
                   rInvoked, rResult>>

\* throw lastError, once the loop has run out of providers
RouterExhausted ==
    /\ rVariant = "list"
    /\ rPc = "loop"
    /\ rIdx > Len(rProviders)
    /\ rResult' = Throw(rLastError)
    /\ rPc' = "thrown"
    /\ UNCHANGED <<fvars, svars, rVariant, rOp, rProviders, rOutcomes, rIdx,
                   rLastError,
                   rInFlight, rInvoked, rWarnings>>

\* older router, primary failed and a fallback is configured:
\* console.warn(...); return await this.fallbackProvider.classify(input)
PrimaryFailsToFallback ==
    /\ rVariant = "primaryFallback"
    /\ rPc = "awaiting" /\ rIdx = 1
    /\ Settled(rIdx).kind = "throw"
    /\ Len(rProviders) = 2
    /\ rLastError' = Settled(rIdx).error
    /\ rWarnings' = LogWarning(rWarnings, rIdx)
    /\ rInFlight' = rInFlight \ {rIdx}
    /\ rIdx' = 2
    /\ rPc' = "loop"
    /\ UNCHANGED <<fvars, svars, rVariant, rOp, rProviders, rOutcomes,
                   rInvoked, rResult>>

\* older router: `throw error` without a fallback, and a failure of the
\* fallback's call, which nothing catches
PrimaryFallbackThrows ==
    /\ rVariant = "primaryFallback"
    /\ rPc = "awaiting"
    /\ Settled(rIdx).kind = "throw"
    /\ rIdx = Len(rProviders)
    /\ rLastError' = Settled(rIdx).error
    /\ rResult' = Throw(Settled(rIdx).error)
    /\ rInFlight' = rInFlight \ {rIdx}
    /\ rPc' = "thrown"
    /\ UNCHANGED <<fvars, svars, rVariant, rOp, rProviders, rOutcomes, rIdx,
                   rInvoked,
                   rWarnings>>

RouterNext ==
    \/ RouterEnter
    \/ RouterInvoke
    \/ RouterReturn
    \/ RouterCatch
    \/ RouterExhausted
    \/ PrimaryFailsToFallback
    \/ PrimaryFallbackThrows

InitRouter == FInit /\ SInit /\ RouterInit

SpecRouter == InitRouter /\ [][RouterNext]_vars

-----------------------------------------------------------------------------
(* SpecScore: updateScore and deriveStage applied to bounded inputs.        *)

MaxCurrent == 100       \* largest current score drawn for updateScore

SignalLists(names, n) == UNION {[1..k -> names] : k \in 0..n}

ScoreInit ==
    /\ fPc = "input"
    /\ fCurrent \in 0..MaxCurrent
    /\ fSignals \in SignalLists(SignalNames, MaxSignals)
    /\ fScore = 0
    /\ fStage = "triage"
    /\ TInit /\ GInit /\ KInit /\ PInit /\ XInit

RInit ==
    /\ rVariant = "list" /\ rOp = "classify" /\ rProviders = <<>>
    /\ rOutcomes = <<>> /\ rPc = "idle" /\ rIdx = 0
    /\ rLastError = NoProvidersError /\ rInFlight = {}
    /\ rInvoked = <<>> /\ rWarnings = <<>>
    /\ rResult = Throw(NoProvidersError)

\* const newScore = updateScore(current, signals);
\* const newStage = deriveStage(newScore)
ApplyScoreEngine ==
    /\ fPc = "input"
    /\ fScore' = updateScore(fCurrent, fSignals)
    /\ fStage' = deriveStage(updateScore(fCurrent, fSignals))
    /\ fPc' = "scored"
    /\ UNCHANGED <<fCurrent, fSignals, tTrust, tPrev, tSignals,
                   gvars, kvars, pvars, xvars, rvars, svars>>

InitScore == ScoreInit /\ RInit /\ SInit

SpecScore == InitScore /\ [][ApplyScoreEngine]_vars

-----------------------------------------------------------------------------
(* The conversation store and the event log *)

Users == {"u1", "u2"}
Slots == {1}
Messages == {"hola"}

Range(seq) == {seq[i] : i \in 1..Len(seq)}

\* this.tenants.set(key, the object at ref)
MapSet(map, key, ref) == [k \in DOMAIN map \cup {key} |->
                             IF k = key THEN ref ELSE map[k]]

\* this.tenants.delete(key)
MapDelete(map, key) == [k \in DOMAIN map \ {key} |-> map[k]]

Last(seq) == seq[Len(seq)]

\* The wall clock is read as the number of events the store holds: a
\* timestamp taken later is never smaller
Now == Len(events)

\* prisma.conversationState.create({ data: { userId, currentScore: 0, ... } })
\* lastInteractionAt is not in the data: the store fills it in with the
\* time of creation
NewConversationAt(id, userId, now) ==
    [id |-> id, userId |-> userId,
     currentScore |-> 0, cumulativeScore |-> 0, lastTags |-> <<>>,
     trustLevel |-> 50, stage |-> "discovery", messageCount |-> 0,
     conversationCost |-> DblZero, overBudget |-> FALSE,
     lastInteractionAt |-> now]

\* the row created in a store that holds no event yet
NewConversation(id, userId) == NewConversationAt(id, userId, 0)

\* ids are generated by the store, one per row; rows are never deleted.
\* The second store of a replay hands out ids of its own
FreshId ==
    Cardinality(DOMAIN conversations) + 1
        + (IF storeB = <<>> THEN 0 ELSE 100)

\* variant of Event: the conversation id is written into the metadata
Event_stamped(conversationId, type, metadata) ==
    [conversationId |-> conversationId, type |-> type,
     metadata |-> [conversationId |-> conversationId] @@ metadata]

\* eventRepo.create({ conversationId, type, metadata })
Event(conversationId, type, metadata) ==
    [conversationId |-> conversationId, type |-> type, metadata |-> metadata]

\* variant of EventRepo_create: the newest event is overwritten
EventRepo_create_overwrite(log, event) ==
    IF log = <<>> THEN <<event>> ELSE [log EXCEPT ![Len(log)] = event]

\* prisma.conversationEvent.create({ data }): one more row, created last
EventRepo_create(log, event) == Append(log, event)

\* the score columns are integer columns: the store refuses a write of a
\* value that is not a number
StoreAccepts(data) == data.currentScore # NaN

-----------------------------------------------------------------------------
(* TagMessage.execute: the values computed between its awaits, from the     *)
(* conversation it read (c) and the classification it uses (cls)            *)

\* variant of DegradedClassification: the adapter-style error tag
DegradedClassification_errorTag ==
    [tags |-> <<"ERROR">>, signals |-> <<>>, tokensUsed |-> 0]

\* catch (error) { classification = { tags: ["UNCLASSIFIED"], ... } }
DegradedClassification ==
    [tags |-> <<"UNCLASSIFIED">>, signals |-> <<>>, tokensUsed |-> 0]

\* try { classification = await llmProvider.classify(...) } catch { ... }
ClassificationOf(r) ==
    IF r.kind = "return" THEN r.value ELSE DegradedClassification

NewScore(c, cls) == updateScore(c.currentScore, cls.signals)
NewStage(c, cls) == deriveStage(NewScore(c, cls))

\* let trustDelta = 0;
\* if (signals.includes("POSITIVE_EMOTION")) trustDelta = 5;
\* if (signals.includes("OBJECTION")) trustDelta = -5;
TrustDelta(signals) ==
    LET d0 == 0
        d1 == IF "POSITIVE_EMOTION" \in Range(signals) THEN 5 ELSE d0
        d2 == IF "OBJECTION" \in Range(signals) THEN -5 ELSE d1
    IN  d2

Min(a, b) == IF a < b THEN a ELSE b
Max(a, b) == IF a > b THEN a ELSE b

\* variant of ClampTrust: the upper clamp is missing
ClampTrust_noCeiling(t) == Max(0, t)

\* Math.max(0, Math.min(100, trustLevel + trustDelta))
ClampTrust(t) == Max(0, Min(100, t))

NewTrust(trustLevel, signals) == ClampTrust(trustLevel + TrustDelta(signals))

\* const messageCost = this.costTracker.calculateCost(tokensUsed)
MessageCost(cls) == calculateCost(cls.tokensUsed)

\* const totalCost = conversation.conversationCost + messageCost
TotalCost(c, cls) == DblAdd(c.conversationCost, MessageCost(cls))

\* variant of NewCumulative: the net score change is added
NewCumulative_net(c, cls) ==
    c.cumulativeScore + (NewScore(c, cls) - c.currentScore)

\* cumulativeScore + (newScore > currentScore ? newScore - currentScore : 0)
NewCumulative(c, cls) ==
    c.cumulativeScore +
        (IF JsGt(NewScore(c, cls), c.currentScore)
         THEN NewScore(c, cls) - c.currentScore ELSE 0)

\* variant of NewMessageCount: the counter is written back as it was read
NewMessageCount_asRead(c) == c.messageCount

\* messageCount: conversation.messageCount + 1
NewMessageCount(c) == c.messageCount + 1

\* the data object of conversationRepo.update(conversation.id, { ... }),
\* built at time `now`
UpdateDataAt(c, cls, now) ==
    [currentScore      |-> NewScore(c, cls),
     cumulativeScore   |-> NewCumulative(c, cls),
     lastTags          |-> cls.tags,
     trustLevel        |-> NewTrust(c.trustLevel, cls.signals),
     stage             |-> NewStage(c, cls),
     messageCount      |-> NewMessageCount(c),
     conversationCost  |-> TotalCost(c, cls),
     overBudget        |-> isOverBudget(TotalCost(c, cls)),
     lastInteractionAt |-> now]

\* the data object of the invocation of slot s: execute builds it, new
\* Date() included, when it calls update, and the store applies it later
UpdateData(s) ==
    UpdateDataAt(inv[s].conversation, inv[s].classification, inv[s].calledAt)

\* prisma.conversationState.update({ where: { id }, data }): the listed
\* columns of the row are overwritten, the others kept
ApplyUpdate(row, data) ==
    [row EXCEPT !.currentScore = data.currentScore,
                !.cumulativeScore = data.cumulativeScore,
                !.lastTags = data.lastTags,
                !.trustLevel = data.trustLevel,
                !.stage = data.stage,
                !.messageCount = data.messageCount,
                !.conversationCost = data.conversationCost,
                !.overBudget = data.overBudget,
                !.lastInteractionAt = data.lastInteractionAt]

\* variant of TagOutput: the accumulated conversation cost is returned
TagOutput_totalCost(c, cls) ==
    [conversationId |-> c.id,
     currentScore   |-> NewScore(c, cls),
     stage          |-> NewStage(c, cls),
     trustLevel     |-> NewTrust(c.trustLevel, cls.signals),
     tags           |-> cls.tags,
     signals        |-> cls.signals,
     cost           |-> TotalCost(c, cls)]

\* the object TagMessage.execute returns
TagOutput(c, cls) ==
    [conversationId |-> c.id,
     currentScore   |-> NewScore(c, cls),
     stage          |-> NewStage(c, cls),
     trustLevel     |-> NewTrust(c.trustLevel, cls.signals),
     tags           |-> cls.tags,
     signals        |-> cls.signals,
     cost           |-> MessageCost(cls)]

\* variant of AfterClassify: the event is decided by the tags
AfterClassify_onTags(c, cls) ==
    IF Len(cls.tags) > 0 THEN "appendSignals"
    ELSE IF NewStage(c, cls) # c.stage THEN "appendStage"
    ELSE "update"

\* where execute suspends next, once the classification is known
AfterClassify(c, cls) ==
    IF Len(cls.signals) > 0 THEN "appendSignals"
    ELSE IF NewStage(c, cls) # c.stage THEN "appendStage"
    ELSE "update"

\* variant of AfterSignals: the event is decided by a change of score
AfterSignals_onScoreChange(c, cls) ==
    IF NewScore(c, cls) # c.currentScore THEN "appendStage" ELSE "update"

\* after the signals event: if (newStage !== conversation.stage)
AfterSignals(c, cls) ==
    IF NewStage(c, cls) # c.stage THEN "appendStage" ELSE "update"

-----------------------------------------------------------------------------
(* GenerateResponse.execute *)

HistoryWindow == 10

\* variant of LastN: the first n elements are kept
LastN_first(seq, n) ==
    IF Len(seq) <= n THEN seq ELSE SubSeq(seq, 1, n)

\* seq.slice(-n)
LastN(seq, n) ==
    IF Len(seq) <= n THEN seq ELSE SubSeq(seq, Len(seq) - n + 1, Len(seq))

\* eventRepo.findByConversation(id): the conversation's events, by creation
EventsOf(id) ==
    SelectSeq(events, LAMBDA e : e.conversationId = id)

IsDialogue(e) == e.type = "MESSAGE" \/ e.type = "ASSISTANT_RESPONSE"

\* .filter(MESSAGE | ASSISTANT_RESPONSE).slice(-10).map({ role, content })
HistoryOf(evs) ==
    LET kept == LastN(SelectSeq(evs, IsDialogue), HistoryWindow)
    IN  [i \in 1..Len(kept) |->
            [role |-> IF kept[i].type = "MESSAGE" THEN "user" ELSE "assistant",
             content |-> kept[i].metadata.content]]

\* variant of ChatOutput: the defaults of a new conversation are returned
ChatOutput_defaults(c, result) ==
    [response |-> result.text, stage |-> "discovery", trustLevel |-> 50]

\* the object GenerateResponse.execute returns
ChatOutput(c, result) ==
    [response |-> result.text, stage |-> c.stage, trustLevel |-> c.trustLevel]

-----------------------------------------------------------------------------
(* Spec: invocations of the two orchestrators over one store.  Each action  *)
(* is the stretch of execute() up to and including one awaited call, so     *)
(* invocations interleave exactly at their awaits.                          *)

\* router configurations the orchestrators are run with: the deployed list,
\* and a list made only of adapters that report their failures
ProviderConfigs == {DeployedProviders, <<"claude", "openai">>}

\* classifications a working backend may produce
Classifications ==
    {[tags |-> <<"arch">>, signals |-> <<"ARCHITECTURE_DESIGN">>,
      tokensUsed |-> 250000],
     [tags |-> <<"stuck">>, signals |-> <<"TECHNICAL_BLOCKER">>,
      tokensUsed |-> 1000],
     [tags |-> <<"mood">>, signals |-> <<"POSITIVE_EMOTION", "OBJECTION">>,
      tokensUsed |-> 1000],
     [tags |-> <<"odd">>, signals |-> <<"constructor">>, tokensUsed |-> 1000],
     [tags |-> <<"chat">>, signals |-> <<>>, tokensUsed |-> 0]}

\* replies a working backend may produce
Replies == {[text |-> "reply", tokensUsed |-> 1000]}

PersistenceError == [message |-> "persistence failed", backend |-> 0]

\* what create() rejects with when a row with the same userId exists
UniqueConstraintError ==
    [message |-> "Unique constraint failed on the fields: (userId)",
     backend |-> 0]

IdleSlot ==
    [pc |-> "idle", op |-> "none", userId |-> "none", message |-> "none",
     conversation |-> Nil, classification |-> Nil, history |-> <<>>,
     reply |-> Nil, result |-> Nil,
     \* history of the invocation, read by no action:
     appended |-> <<>>,       \* the events it has appended, in order
     loaded |-> 0,            \* the length of the log when it was read
     calledAt |-> 0,          \* new Date() of the update's data object
     segment |-> "none",      \* userSegment of a /whatsapp/chat request
     remaining |-> 0,         \* limitCheck.remaining of the request
     created |-> FALSE,       \* findOrCreate created the row
     backendsDown |-> FALSE,  \* every backend's model call failed
     routerThrew |-> FALSE]   \* the router call rejected

EmptyStore == [u \in {} |-> Nil]

Init ==
    /\ FInit /\ RInit
    /\ providers \in ProviderConfigs
    /\ conversations = EmptyStore
    /\ events = <<>>
    /\ inv = [s \in Slots |-> IdleSlot]
    /\ started = 0
    /\ failures = 0

At(s, pc) == inv[s].pc = pc

\* no invocation is under way
Quiescent == \A s \in DOMAIN inv : inv[s].pc \in {"idle", "done", "failed"}

AllFail(outcomes) == \A k \in DOMAIN outcomes : outcomes[k] = "fail"

\* an await of execute has resolved at time `now` and execute runs on to
\* its next await; when that is the update, the data object is built on
\* the way, with new Date()
Proceed(rec, pc, now) ==
    [rec EXCEPT !.pc = pc,
                !.calledAt = IF pc = "update" THEN now ELSE @]

Set(s, rec) == inv' = [inv EXCEPT ![s] = rec]

\* variant of Fail: the rejection is caught and the call is awaited again
Fail_retry(s, error) == Set(s, inv[s])

\* a rejection that nothing in execute catches: it leaves execute
Fail(s, error) ==
    Set(s, [inv[s] EXCEPT !.pc = "failed", !.result = Throw(error)])

\* the invocation's record after an eventRepo.create of this step has
\* resolved: the event the store has just created is noted
Appended(s) == [inv[s] EXCEPT !.appended = Append(@, Last(events'))]

\* variant of AfterFind: tag-message goes straight to the classifier
AfterFind_classifyFirst(op) ==
    CASE op = "tag" -> "classify"
      [] op = "chat" -> "loadHistory"
      [] op = "talkme" -> "talkmeLoad"
      [] op = "tenant" -> "tenantLoad"
      [] op = "whatsapp" -> "whatsappLoad"

\* the first step after findOrCreate has resolved
AfterFind(op) ==
    CASE op = "tag" -> "appendMessage"
      [] op = "chat" -> "loadHistory"
      [] op = "talkme" -> "talkmeLoad"
      [] op = "tenant" -> "tenantLoad"
      [] op = "whatsapp" -> "whatsappLoad"

\* a request arrives on a free slot; `max` bounds the requests of a
\* behaviour
Arrive(s, op, u, m, max) ==
    /\ inv[s].pc \in {"idle", "done", "failed"}
    /\ started < max
    /\ started' = started + 1
    /\ Set(s, [IdleSlot EXCEPT !.pc = "find", !.op = op, !.userId = u,
                               !.message = m])

\* a request arrives: POST /brain/tag or POST /brain/chat
Start(s, op, u, m) ==
    /\ Arrive(s, op, u, m, MaxMessages)
    /\ UNCHANGED <<fvars, rvars, providers, conversations, events, failures>>

\* findOrCreate: findUnique({ where: { userId } }) finds the row
FindExisting(s) ==
    /\ At(s, "find")
    /\ inv[s].userId \in DOMAIN conversations
    /\ Set(s, [inv[s] EXCEPT !.pc = AfterFind(inv[s].op),
                             !.conversation = conversations[inv[s].userId]])
    /\ UNCHANGED <<fvars, rvars,
                     providers, conversations, events, started, failures>>

\* findOrCreate: findUnique finds nothing; create is awaited next
FindMissing(s) ==
    /\ At(s, "find")
    /\ inv[s].userId \notin DOMAIN conversations
    /\ Set(s, [inv[s] EXCEPT !.pc = "create"])
    /\ UNCHANGED <<fvars, rvars,
                     providers, conversations, events, started, failures>>

\* findOrCreate: create({ data: { userId, ...defaults } }).  userId is
\* unique: if another invocation has created the row since findUnique, the
\* create is rejected and the rejection propagates
Create(s) ==
    /\ At(s, "create")
    /\ IF inv[s].userId \notin DOMAIN conversations
       THEN LET row == NewConversationAt(FreshId, inv[s].userId, Now)
            IN  /\ conversations' = (inv[s].userId :> row) @@ conversations
                /\ Set(s, [inv[s] EXCEPT !.pc = AfterFind(inv[s].op),
                                         !.conversation = row,
                                         !.created = TRUE])
       ELSE /\ Fail(s, UniqueConstraintError)
            /\ UNCHANGED conversations
    /\ UNCHANGED <<fvars, rvars, providers, events, started, failures>>

\* eventRepo.create({ type: "MESSAGE", metadata: { content } })
AppendMessage(s) ==
    /\ At(s, "appendMessage")
    /\ events' = EventRepo_create(events,
                     Event(inv[s].conversation.id, "MESSAGE",
                           [content |-> inv[s].message]))
    /\ Set(s, [Appended(s) EXCEPT !.pc = "classify"])
    /\ UNCHANGED <<fvars, rvars, providers, conversations, started, failures>>

\* the fates of the backends' model calls during one router call
Outcomes == [1..Len(providers) -> {"ok", "fail"}]

\* try { classification = await llmProvider.classify(...) } catch { ... },
\* when the backends fare as in `outcomes` and a working one answers c
Classified(s, outcomes, c) ==
    /\ At(s, "classify")
    /\ LET r == LLMRouter_call(providers, "classify", outcomes,
                               [k \in 1..Len(providers) |-> c])
           cls == ClassificationOf(r)
       IN  Set(s, Proceed([inv[s] EXCEPT
                              !.classification = cls,
                              !.backendsDown = AllFail(outcomes),
                              !.routerThrew = (r.kind = "throw")],
                          AfterClassify(inv[s].conversation, cls), Now))

Classify(s) ==
    /\ \E outcomes \in Outcomes, c \in Classifications :
          Classified(s, outcomes, c)
    /\ UNCHANGED <<fvars, rvars,
                     providers, conversations, events, started, failures>>

\* if (signals.length > 0) await eventRepo.create({ type: "SIGNALS_DETECTED" })
AppendSignals(s) ==
    /\ At(s, "appendSignals")
    /\ events' = EventRepo_create(events,
                     Event(inv[s].conversation.id, "SIGNALS_DETECTED",
                           [signals |-> inv[s].classification.signals]))
    /\ Set(s, Proceed(Appended(s),
                       AfterSignals(inv[s].conversation,
                                    inv[s].classification),
                       Len(events')))
    /\ UNCHANGED <<fvars, rvars, providers, conversations, started, failures>>

\* if (newStage !== conversation.stage)
\*     await eventRepo.create({ type: "STAGE_CHANGE", metadata: { from, to } })
AppendStage(s) ==
    /\ At(s, "appendStage")
    /\ events' = EventRepo_create(events,
                     Event(inv[s].conversation.id, "STAGE_CHANGE",
                           [from |-> inv[s].conversation.stage,
                            to |-> NewStage(inv[s].conversation,
                                            inv[s].classification)]))
    /\ Set(s, Proceed(Appended(s), "update", Len(events')))
    /\ UNCHANGED <<fvars, rvars, providers, conversations, started, failures>>

\* await conversationRepo.update(conversation.id, { ... }); return { ... }
Updated(s) ==
    /\ At(s, "update")
    /\ LET c == inv[s].conversation
           cls == inv[s].classification
           data == UpdateData(s)
       IN  /\ StoreAccepts(data)
           /\ conversations' =
                  [conversations EXCEPT
                     ![c.userId] = ApplyUpdate(conversations[c.userId], data)]
           /\ Set(s, [inv[s] EXCEPT !.pc = "done",
                                    !.result = Return(TagOutput(c, cls))])

Update(s) ==
    /\ Updated(s)
    /\ UNCHANGED <<fvars, rvars, providers, events, started, failures>>

\* the store refuses the update's data, and the rejection propagates
Rejected(s) ==
    /\ At(s, "update")
    /\ ~StoreAccepts(UpdateData(s))
    /\ Fail(s, PersistenceError)

UpdateRejected(s) ==
    /\ Rejected(s)
    /\ UNCHANGED <<fvars, rvars,
                     providers, conversations, events, started, failures>>

\* const recentEvents = await eventRepo.findByConversation(conversation.id);
\* const history = recentEvents.filter(...).slice(-10).map(...)
LoadHistory(s) ==
    /\ At(s, "loadHistory")
    /\ Set(s, [inv[s] EXCEPT
                 !.pc = "generate",
                 !.history = HistoryOf(EventsOf(inv[s].conversation.id)),
                 !.loaded = Len(events)])
    /\ UNCHANGED <<fvars, rvars,
                     providers, conversations, events, started, failures>>

\* const result = await llmProvider.generateResponse({ ... }): no try/catch,
\* so what the router throws leaves execute
Generated(s, outcomes, t) ==
    /\ At(s, "generate")
    /\ LET r == LLMRouter_call(providers, "generateResponse", outcomes,
                               [k \in 1..Len(providers) |-> t])
       IN  IF r.kind = "return"
           THEN Set(s, [inv[s] EXCEPT !.pc = "appendResponse",
                                      !.reply = r.value,
                                      !.backendsDown = AllFail(outcomes)])
           ELSE Set(s, [inv[s] EXCEPT !.pc = "failed",
                                      !.result = Throw(r.error),
                                      !.backendsDown = AllFail(outcomes),
                                      !.routerThrew = TRUE])

Generate(s) ==
    /\ \E outcomes \in Outcomes, t \in Replies : Generated(s, outcomes, t)
    /\ UNCHANGED <<fvars, rvars,
                     providers, conversations, events, started, failures>>

\* await eventRepo.create({ type: "ASSISTANT_RESPONSE", ... }); return { ... }
AppendResponse(s) ==
    /\ At(s, "appendResponse")
    /\ events' = EventRepo_create(events,
                     Event(inv[s].conversation.id, "ASSISTANT_RESPONSE",
                           [content |-> inv[s].reply.text]))
    /\ Set(s, [Appended(s) EXCEPT
                 !.pc = "done",
                 !.result = Return(ChatOutput(inv[s].conversation,
                                              inv[s].reply))])
    /\ UNCHANGED <<fvars, rvars, providers, conversations, started, failures>>

PersistenceSteps ==
    {"find", "create", "appendMessage", "appendSignals", "appendStage",
     "update", "loadHistory", "appendResponse",
     "talkmeLoad", "talkmeAppendMessage", "talkmeAppendResponse",
     "talkmeUpdate", "tenantLoad", "tenantAppendMessage",
     "tenantAppendResponse", "whatsappLoad"}

\* an awaited call on the store rejects; nothing in execute catches it
PersistenceFails(s) ==
    /\ inv[s].pc \in PersistenceSteps
    /\ failures < MaxFailures
    /\ failures' = failures + 1
    /\ Fail(s, PersistenceError)
    /\ UNCHANGED <<fvars, rvars, providers, conversations, events, started>>

Next ==
    \/ \E s \in DOMAIN inv, op \in {"tag", "chat"}, u \in Users,
          m \in Messages : Start(s, op, u, m)
    \/ \E s \in DOMAIN inv : FindExisting(s)
    \/ \E s \in DOMAIN inv : FindMissing(s)
    \/ \E s \in DOMAIN inv : Create(s)
    \/ \E s \in DOMAIN inv : AppendMessage(s)
    \/ \E s \in DOMAIN inv : Classify(s)
    \/ \E s \in DOMAIN inv : AppendSignals(s)
    \/ \E s \in DOMAIN inv : AppendStage(s)
    \/ \E s \in DOMAIN inv : Update(s)
    \/ \E s \in DOMAIN inv : UpdateRejected(s)
    \/ \E s \in DOMAIN inv : LoadHistory(s)
    \/ \E s \in DOMAIN inv : Generate(s)
    \/ \E s \in DOMAIN inv : AppendResponse(s)
    \/ \E s \in DOMAIN inv : PersistenceFails(s)

Spec == Init /\ [][Next]_vars

-----------------------------------------------------------------------------
(* SpecCost: a CostTracker is constructed from a configuration and its two  *)
(* methods are called on bounded arguments.                                 *)

\* configurations the constructor is given: the env defaults, zero and
\* negative values
CostConfigs ==
    {[costPer1kTokens |-> c, budgetThreshold |-> b] :
        c \in {DblNeg(costPer1kTokens), DblZero, costPer1kTokens},
        b \in {DblNeg(budgetThreshold), DblZero, budgetThreshold}}

TokenCounts == 0..MaxTokens

\* total costs isOverBudget is called on: the threshold, the doubles next
\* to it on both sides (steps of the spacing of doubles at 10.0), and 0
TotalCosts(self) ==
    IF self = <<>> THEN {}
    ELSE {DblAdd(self.budgetThreshold, DblScale(d, budgetThreshold.e)) :
             d \in (0 - MaxTokens)..MaxTokens}
             \cup {DblZero}

CostInit ==
    /\ fPc = "input" /\ fCurrent = 0 /\ fSignals = <<>>
    /\ fScore = 0 /\ fStage = "triage"
    /\ TInit /\ GInit /\ PInit /\ XInit
    /\ costTracker = <<>>
    /\ kCall = <<>>

\* new CostTracker(config)
Construct(config) ==
    /\ costTracker = <<>>
    /\ costTracker' = CostTracker_new(config)
    /\ UNCHANGED <<fPc, fCurrent, fSignals, fScore, fStage,
                   tTrust, tPrev, tSignals, gvars, kCall, pvars, xvars,
                   rvars, svars>>

\* costTracker.calculateCost(tokensUsed)
CallCalculateCost(tokensUsed) ==
    /\ costTracker # <<>>
    /\ kCall' = [op |-> "calculateCost", arg |-> tokensUsed,
                 result |-> CostTracker_calculateCost(costTracker, tokensUsed)]
    /\ UNCHANGED <<fPc, fCurrent, fSignals, fScore, fStage,
                   tTrust, tPrev, tSignals, gvars, costTracker, pvars, xvars,
                   rvars, svars>>

\* costTracker.isOverBudget(totalCost)
CallIsOverBudget(totalCost) ==
    /\ costTracker # <<>>
    /\ kCall' = [op |-> "isOverBudget", arg |-> totalCost,
                 result |-> CostTracker_isOverBudget(costTracker, totalCost)]
    /\ UNCHANGED <<fPc, fCurrent, fSignals, fScore, fStage,
                   tTrust, tPrev, tSignals, gvars, costTracker, pvars, xvars,
                   rvars, svars>>

CostNext ==
    \/ \E config \in CostConfigs : Construct(config)
    \/ \E tokensUsed \in TokenCounts : CallCalculateCost(tokensUsed)
    \/ \E totalCost \in TotalCosts(costTracker) : CallIsOverBudget(totalCost)

InitCost == CostInit /\ RInit /\ SInit

SpecCost == InitCost /\ [][CostNext]_vars

-----------------------------------------------------------------------------
(* Requests run to completion one after another on a store value: what a    *)
(* store holds after a sequence of requests none of which overlaps another. *)
(* The stores that the specifications below start from are built this way.  *)

\* a store: rows by userId, the event log, the next id it hands out, and
\* the number of requests served on it
FreshStore(firstId) ==
    [conversations |-> EmptyStore, events |-> <<>>,
     nextId |-> firstId, served |-> 0]

\* conversationRepo.findOrCreate(userId), run to completion
Store_findOrCreate(store, userId) ==
    IF userId \in DOMAIN store.conversations THEN store
    ELSE [store EXCEPT
            !.conversations =
                (userId :> NewConversationAt(store.nextId, userId,
                                             Len(store.events))) @@ @,
            !.nextId = @ + 1]

\* eventRepo.create(event)
Store_create(store, event) ==
    [store EXCEPT !.events = EventRepo_create(@, event)]

\* TagMessage.execute(input), run to completion without overlap; r is what
\* the router's classify settles with
RunTagMessage(store, input, r) ==
    LET s1 == Store_findOrCreate(store, input.userId)
        c == s1.conversations[input.userId]
        s2 == Store_create(s1, Event(c.id, "MESSAGE",
                                     [content |-> input.message]))
        cls == ClassificationOf(r)
        s3 == IF Len(cls.signals) > 0
              THEN Store_create(s2, Event(c.id, "SIGNALS_DETECTED",
                                          [signals |-> cls.signals]))
              ELSE s2
        s4 == IF NewStage(c, cls) # c.stage
              THEN Store_create(s3, Event(c.id, "STAGE_CHANGE",
                                          [from |-> c.stage,
                                           to |-> NewStage(c, cls)]))
              ELSE s3
        data == UpdateDataAt(c, cls, Len(s4.events))
    IN  IF StoreAccepts(data)
        THEN [s4 EXCEPT !.conversations[input.userId] = ApplyUpdate(@, data)]
        ELSE s4

\* GenerateResponse.execute(input), run to completion without overlap; r is
\* what the router's generateResponse settles with
RunGenerateResponse(store, input, r) ==
    LET s1 == Store_findOrCreate(store, input.userId)
        c == s1.conversations[input.userId]
    IN  IF r.kind = "return"
        THEN Store_create(s1, Event(c.id, "ASSISTANT_RESPONSE",
                                    [content |-> r.value.text]))
        ELSE s1

\* what the deployed router settles with for a request whose backends fare
\* as in entry.outcomes and answer entry.payload
RouterResult(entry) ==
    LLMRouter_call(DeployedProviders,
                   IF entry.op = "tag" THEN "classify"
                   ELSE "generateResponse",
                   entry.outcomes,
                   [k \in 1..Len(DeployedProviders) |-> entry.payload])

\* one request served on a store
Serve(store, entry) ==
    LET next == IF entry.op = "tag"
                THEN RunTagMessage(store, entry.input, RouterResult(entry))
                ELSE RunGenerateResponse(store, entry.input,
                                         RouterResult(entry))
    IN  [next EXCEPT !.served = @ + 1]

\* the store after the requests of a script, served in order
RECURSIVE ServeAll(_, _)
ServeAll(store, entries) ==
    IF entries = <<>> THEN store
    ELSE LET next == Serve(store, Head(entries))
         IN  IF next.served > store.served
             THEN ServeAll(next, Tail(entries))
             ELSE store

AllOk == [k \in 1..Len(DeployedProviders) |-> "ok"]
AllDown == [k \in 1..Len(DeployedProviders) |-> "fail"]

TagEntry(u, m, outcomes, c) ==
    [op |-> "tag", input |-> [userId |-> u, message |-> m],
     outcomes |-> outcomes, payload |-> c]

ChatEntry(u, m, outcomes, t) ==
    [op |-> "chat", input |-> [userId |-> u, message |-> m],
     outcomes |-> outcomes, payload |-> t]

-----------------------------------------------------------------------------
(* SpecReplay: one script of requests, each with the fates and answers of   *)
(* the backends, is run request by request against a fresh store, and then  *)
(* again against a second fresh store, which hands out other ids.  Each     *)
(* request is run await by await with the steps of Spec; a request of the   *)
(* script is sent when the one before it has settled.  storeA and storeB    *)
(* record what each store held after 0, 1, 2, ... requests.                 *)

\* classifications the backends answer with in a script
ReplayClassifications ==
    {c \in Classifications : c.tags \in {<<"arch">>, <<"odd">>, <<"chat">>}}

\* the requests a script is made of
ReplayEntries ==
    {TagEntry(u, m, o, c) :
        u \in Users, m \in Messages, o \in {AllOk},
        c \in ReplayClassifications}
    \cup
    {TagEntry(u, m, AllDown, CHOOSE c \in ReplayClassifications : TRUE) :
        u \in Users, m \in Messages}
    \cup
    {ChatEntry(u, m, o, t) :
        u \in Users, m \in Messages, o \in {AllOk, AllDown}, t \in Replies}

Scripts == UNION {[1..n -> ReplayEntries] : n \in 0..MaxMessages}

\* what a store holds
Held == [conversations |-> conversations, events |-> events]

ReplayInit ==
    /\ script \in Scripts
    /\ storeA = <<[conversations |-> EmptyStore, events |-> <<>>]>>
    /\ storeB = <<>>
    /\ providers = DeployedProviders
    /\ conversations = EmptyStore
    /\ events = <<>>
    /\ inv = [s \in Slots |-> IdleSlot]
    /\ started = 0
    /\ failures = 0

\* what the store in use held after each request so far
Noted(record) == IF started = 0 THEN record ELSE Append(record, Held)

\* the next request of the script is sent
ReplayStart(s) ==
    /\ started < Len(script)
    /\ LET entry == script[started + 1]
       IN  Arrive(s, entry.op, entry.input.userId, entry.input.message,
                  Len(script))
    /\ IF storeB = <<>>
       THEN storeA' = Noted(storeA) /\ UNCHANGED storeB
       ELSE storeB' = Noted(storeB) /\ UNCHANGED storeA
    /\ UNCHANGED <<fPc, fCurrent, fSignals, fScore, fStage, tTrust, tPrev,
                   tSignals, gvars, kvars, xvars, script, rvars,
                   providers, conversations, events, failures>>

\* the router settles as the script says
ReplayClassify(s) ==
    /\ Classified(s, script[started].outcomes, script[started].payload)
    /\ UNCHANGED <<fvars, rvars,
                     providers, conversations, events, started, failures>>

ReplayGenerate(s) ==
    /\ Generated(s, script[started].outcomes, script[started].payload)
    /\ UNCHANGED <<fvars, rvars,
                     providers, conversations, events, started, failures>>

\* the script has been run on the first store: the second, fresh store
\* takes its place
ReplaySwitch ==
    /\ storeB = <<>>
    /\ started = Len(script)
    /\ Quiescent
    /\ storeA' = Noted(storeA)
    /\ storeB' = <<[conversations |-> EmptyStore, events |-> <<>>]>>
    /\ conversations' = EmptyStore
    /\ events' = <<>>
    /\ inv' = [s \in Slots |-> IdleSlot]
    /\ started' = 0
    /\ UNCHANGED <<fPc, fCurrent, fSignals, fScore, fStage, tTrust, tPrev,
                   tSignals, gvars, kvars, xvars, script, rvars,
                   providers, failures>>

\* the script has been run on the second store
ReplayEnd ==
    /\ storeB # <<>>
    /\ started = Len(script)
    /\ started > 0
    /\ Len(storeB) = started
    /\ Quiescent
    /\ storeB' = Noted(storeB)
    /\ UNCHANGED <<fPc, fCurrent, fSignals, fScore, fStage, tTrust, tPrev,
                   tSignals, gvars, kvars, xvars, script, storeA, rvars,
                   svars>>

ReplayNext ==
    \/ \E s \in DOMAIN inv : ReplayStart(s)
    \/ \E s \in DOMAIN inv : FindExisting(s)
    \/ \E s \in DOMAIN inv : FindMissing(s)
    \/ \E s \in DOMAIN inv : Create(s)
    \/ \E s \in DOMAIN inv : AppendMessage(s)
    \/ \E s \in DOMAIN inv : ReplayClassify(s)
    \/ \E s \in DOMAIN inv : AppendSignals(s)
    \/ \E s \in DOMAIN inv : AppendStage(s)
    \/ \E s \in DOMAIN inv : Update(s)
    \/ \E s \in DOMAIN inv : UpdateRejected(s)
    \/ \E s \in DOMAIN inv : LoadHistory(s)
    \/ \E s \in DOMAIN inv : ReplayGenerate(s)
    \/ \E s \in DOMAIN inv : AppendResponse(s)
    \/ ReplaySwitch
    \/ ReplayEnd

InitReplay ==
    /\ fPc = "input" /\ fCurrent = 0 /\ fSignals = <<>>
    /\ fScore = 0 /\ fStage = "triage"
    /\ TInit /\ GInit /\ KInit /\ XInit
    /\ ReplayInit /\ RInit

SpecReplay == InitReplay /\ [][ReplayNext]_vars

-----------------------------------------------------------------------------
(* SpecRoutes: the orchestrators together with the routes of main.ts that   *)
(* write to the same store: POST /talkme/session (its own events, and an    *)
(* update of messageCount and conversationCost), POST /tenant/:slug/chat    *)
(* (a row and two events, no update), and the routes that append an event   *)
(* under a literal conversation id: POST /cerebro/task ("cerebro"),         *)
(* POST /whatsapp/webhook and POST /whatsapp/transfer ("whatsapp") and      *)
(* POST /tenant/:slug/lead (the slug).  Row ids are positive numbers; the   *)
(* literal ids are written as numbers no row has.  The tenant "acme" is     *)
(* registered, active and has Bitrix configured; requests carry the API key *)
(* where the route asks for it.  All events of a behaviour are created on   *)
(* the same day.                                                            *)

\* conversationId: "cerebro"
CerebroId == 0

\* conversationId: "whatsapp"
WhatsappId == CerebroId - 1

\* conversationId: slug, for the tenant "acme"
SlugId == WhatsappId - 1

\* PLAN_LIMITS.free.maxInteractions
maxInteractions == 10

\* the literal 0.001 of result.tokensUsed * 0.001
talkmeCostPerToken == parseFloat(1, 3)

\* result.tokensUsed * 0.001
TalkmeCost(reply) == DblMul(DblOfInt(reply.tokensUsed), talkmeCostPerToken)

RouteUsers == {"talkme_u1"}

\* `${slug}_${userId}` for the tenant "acme" and the user "u1"
TenantUser == "acme_u1"

\* the requests that run on a slot: the operation and the userId it hands
\* to findOrCreate
RouteRequests ==
    {[op |-> op, userId |-> u] : op \in {"tag", "chat", "talkme"},
                                 u \in RouteUsers}
        \cup {[op |-> "tenant", userId |-> TenantUser]}

\* replies a working backend may produce for a session
TalkmeReplies ==
    {[text |-> "reply", tokensUsed |-> 1000],
     [text |-> "long reply", tokensUsed |-> 10000]}

\* a store in which the user has already held five sessions today
BusyRow ==
    [NewConversation(1, "talkme_u1") EXCEPT
        !.messageCount = 5,
        !.conversationCost = DblOfInt(5)]

BusyLog ==
    [i \in 1..10 |->
        IF i % 2 = 1
        THEN Event(1, "TALKME_MESSAGE", [content |-> "hola"])
        ELSE Event(1, "TALKME_RESPONSE", [content |-> "reply"])]

RoutesInit ==
    /\ providers = DeployedProviders
    /\ \/ conversations = EmptyStore /\ events = <<>>
       \/ conversations = ("talkme_u1" :> BusyRow) /\ events = BusyLog
    /\ inv = [s \in Slots |-> IdleSlot]
    /\ started = 0
    /\ failures = 0

\* recentEvents.filter(TALKME_MESSAGE | TALKME_RESPONSE).slice(-10).map(...)
TalkmeHistoryOf(evs) ==
    LET kept == LastN(SelectSeq(evs, LAMBDA e :
                                    \/ e.type = "TALKME_MESSAGE"
                                    \/ e.type = "TALKME_RESPONSE"),
                      HistoryWindow)
    IN  [i \in 1..Len(kept) |->
            [role |-> IF kept[i].type = "TALKME_MESSAGE"
                      THEN "user" ELSE "assistant",
             content |-> kept[i].metadata.content]]

\* const recentEvents = await eventRepo.findByConversation(conversation.id);
\* if (todayInteractions >= limits.maxInteractions) return reply.status(429)
TalkmeLoad(s) ==
    /\ At(s, "talkmeLoad")
    /\ LET evs == EventsOf(inv[s].conversation.id)
       IN  IF Len(evs) >= maxInteractions
           THEN Set(s, [inv[s] EXCEPT !.pc = "done",
                                      !.result = Return([status |-> 429])])
           ELSE Set(s, [inv[s] EXCEPT !.pc = "talkmeGenerate",
                                      !.history = TalkmeHistoryOf(evs)])
    /\ UNCHANGED <<fvars, rvars,
                     providers, conversations, events, started, failures>>

\* const result = await llmProvider.generateResponse({ ... }), inside the
\* route's try: a rejection becomes the 500 reply
TalkmeGenerate(s) ==
    /\ At(s, "talkmeGenerate")
    /\ \E outcomes \in Outcomes, t \in TalkmeReplies :
          LET r == LLMRouter_call(providers, "generateResponse", outcomes,
                                  [k \in 1..Len(providers) |-> t])
          IN  IF r.kind = "return"
              THEN Set(s, [inv[s] EXCEPT !.pc = "talkmeAppendMessage",
                                         !.reply = r.value,
                                         !.backendsDown = AllFail(outcomes)])
              ELSE Set(s, [inv[s] EXCEPT !.pc = "failed",
                                         !.result = Throw(r.error),
                                         !.backendsDown = AllFail(outcomes),
                                         !.routerThrew = TRUE])
    /\ UNCHANGED <<fvars, rvars,
                     providers, conversations, events, started, failures>>

\* await eventRepo.create({ type: "TALKME_MESSAGE", ... })
TalkmeAppendMessage(s) ==
    /\ At(s, "talkmeAppendMessage")
    /\ events' = EventRepo_create(events,
                     Event(inv[s].conversation.id, "TALKME_MESSAGE",
                           [content |-> inv[s].message]))
    /\ Set(s, [Appended(s) EXCEPT !.pc = "talkmeAppendResponse"])
    /\ UNCHANGED <<fvars, rvars, providers, conversations, started, failures>>

\* await eventRepo.create({ type: "TALKME_RESPONSE", ... })
TalkmeAppendResponse(s) ==
    /\ At(s, "talkmeAppendResponse")
    /\ events' = EventRepo_create(events,
                     Event(inv[s].conversation.id, "TALKME_RESPONSE",
                           [content |-> inv[s].reply.text]))
    /\ Set(s, [Appended(s) EXCEPT !.pc = "talkmeUpdate"])
    /\ UNCHANGED <<fvars, rvars, providers, conversations, started, failures>>

\* the data object of the session's conversationRepo.update
TalkmeUpdateData(c, reply) ==
    [messageCount |-> c.messageCount + 1,
     conversationCost |-> DblAdd(c.conversationCost, TalkmeCost(reply))]

\* await conversationRepo.update(conversation.id, { messageCount,
\* conversationCost }); return { response, ... }
TalkmeUpdate(s) ==
    /\ At(s, "talkmeUpdate")
    /\ LET c == inv[s].conversation
           data == TalkmeUpdateData(c, inv[s].reply)
       IN  /\ conversations' =
                  [conversations EXCEPT
                     ![c.userId] =
                        [@ EXCEPT !.messageCount = data.messageCount,
                                  !.conversationCost = data.conversationCost]]
           /\ Set(s, [inv[s] EXCEPT
                        !.pc = "done",
                        !.result = Return([response |-> inv[s].reply.text,
                                           tokensUsed |->
                                               inv[s].reply.tokensUsed])])
    /\ UNCHANGED <<fvars, rvars, providers, events, started, failures>>

\* POST /tenant/:slug/chat: const recentEvents = await
\* eventRepo.findByConversation(conversation.id); const history = ...
TenantLoad(s) ==
    /\ At(s, "tenantLoad")
    /\ Set(s, [inv[s] EXCEPT
                 !.pc = "tenantGenerate",
                 !.history = HistoryOf(EventsOf(inv[s].conversation.id)),
                 !.loaded = Len(events)])
    /\ UNCHANGED <<fvars, rvars,
                     providers, conversations, events, started, failures>>

\* const result = await llmRouter.generateResponse({ ... }), inside the
\* route's try: a rejection becomes the 500 reply
TenantGenerate(s) ==
    /\ At(s, "tenantGenerate")
    /\ \E outcomes \in Outcomes, t \in Replies :
          LET r == LLMRouter_call(providers, "generateResponse", outcomes,
                                  [k \in 1..Len(providers) |-> t])
          IN  IF r.kind = "return"
              THEN Set(s, [inv[s] EXCEPT !.pc = "tenantAppendMessage",
                                         !.reply = r.value,
                                         !.backendsDown = AllFail(outcomes)])
              ELSE Set(s, [inv[s] EXCEPT !.pc = "failed",
                                         !.result = Throw(r.error),
                                         !.backendsDown = AllFail(outcomes),
                                         !.routerThrew = TRUE])
    /\ UNCHANGED <<fvars, rvars,
                     providers, conversations, events, started, failures>>

\* await eventRepo.create({ type: "MESSAGE", metadata: { content, tenant } })
TenantAppendMessage(s) ==
    /\ At(s, "tenantAppendMessage")
    /\ events' = EventRepo_create(events,
                     Event(inv[s].conversation.id, "MESSAGE",
                           [content |-> inv[s].message, tenant |-> "acme"]))
    /\ Set(s, [Appended(s) EXCEPT !.pc = "tenantAppendResponse"])
    /\ UNCHANGED <<fvars, rvars, providers, conversations, started, failures>>

\* await eventRepo.create({ type: "ASSISTANT_RESPONSE", ... }); return
\* { tenant, response, tokensUsed }: the row is not updated
TenantAppendResponse(s) ==
    /\ At(s, "tenantAppendResponse")
    /\ events' = EventRepo_create(events,
                     Event(inv[s].conversation.id, "ASSISTANT_RESPONSE",
                           [content |-> inv[s].reply.text,
                            tenant |-> "acme"]))
    /\ Set(s, [Appended(s) EXCEPT
                 !.pc = "done",
                 !.result = Return([tenant |-> "acme",
                                    response |-> inv[s].reply.text,
                                    tokensUsed |-> inv[s].reply.tokensUsed])])
    /\ UNCHANGED <<fvars, rvars, providers, conversations, started, failures>>

(* The daily token quota of POST /whatsapp/chat.  Time is counted in hours. *)

\* WHATSAPP_TOKEN_LIMITS.maxTokensDaily
maxTokensDaily == 1000

\* 1000 * 60 * 60 * 24 milliseconds
HoursPerDay == 24

\* USER_VALUE_CONFIG[segment]?.maxTokens || 150
getUserCostLimit(userId, segment) ==
    CASE segment = "soporte" -> 200
      [] segment = "venta" -> 250
      [] segment = "lead_frio" -> 150
      [] segment = "cliente_activo" -> 300
      [] segment = "no_convertido" -> 100
      [] OTHER -> 150

\* tracker = { dailyTokens: 0, monthlyTokens: 0, lastReset: now }
NewTracker(now) == [dailyTokens |-> 0, monthlyTokens |-> 0, lastReset |-> now]

\* let tracker = userCostTracker.get(userId); if (!tracker) { ...set }
TrackerOf(trackers, userId, now) ==
    IF userId \in DOMAIN trackers THEN trackers[userId] ELSE NewTracker(now)

\* Math.floor((now - lastReset) / day); if (dayDiff >= 1) { reset }
AfterDailyReset(tracker, now) ==
    IF (now - tracker.lastReset) \div HoursPerDay >= 1
    THEN [tracker EXCEPT !.dailyTokens = 0, !.lastReset = now]
    ELSE tracker

\* variant of Refused: a request that takes all that remains is refused
Refused_exactFit(tokens, remaining) == tokens >= remaining

\* if (tokens > remaining) return { allowed: false, remaining }
Refused(tokens, remaining) == tokens > remaining

\* checkTokenLimit(userId, tokens) at time now: the Map afterwards and the
\* value returned
checkTokenLimit(trackers, userId, tokens, now) ==
    LET tracker == AfterDailyReset(TrackerOf(trackers, userId, now), now)
        remaining == maxTokensDaily - tracker.dailyTokens
    IN  IF Refused(tokens, remaining)
        THEN [trackers |-> MapSet(trackers, userId, tracker),
              result |-> [allowed |-> FALSE, remaining |-> remaining]]
        ELSE [trackers |->
                  MapSet(trackers, userId,
                         [tracker EXCEPT !.dailyTokens = @ + tokens]),
              result |-> [allowed |-> TRUE,
                          remaining |-> remaining - tokens]]

\* messages sent to POST /whatsapp/chat
WhatsappMessages == {"Hola ", "precio"}

\* `wa_${userId}`, for the users that ask
WaUserIds == [wa1 |-> "wa_wa1", wa2 |-> "wa_wa2"]

\* const ruleBasedResponses: Record<string, string> = { ... }
ruleBasedResponses ==
    ("hola" :> "¡Hola! ¿En qué puedo ayudarte hoy?")
        @@ ("hello" :> "Hi! How can I help you?")
        @@ ("gracias" :> "¡De nada! ¿Algo más?")
        @@ ("thanks" :> "You're welcome! Anything else?")
        @@ ("adiós" :> "¡Hasta luego! Que tengas un buen día.")
        @@ ("bye" :> "Goodbye! Have a great day.")

\* message.toLowerCase().trim(), for the messages that are sent: "Hola "
\* is the one with a capital or a blank at its ends
messageLower(message) == IF message = "Hola " THEN "hola" ELSE message

\* ruleBasedResponses[messageLower] is truthy: the object literal holds
\* the key or inherits it from Object.prototype
RuleFound(key) == key \in DOMAIN ruleBasedResponses \/ key \in InheritedKeys

\* return { response: ruleBasedResponses[messageLower], source:
\* "rule_based", ..., tokensUsed: 5, cost: 0.0001 }; an inherited member
\* is a function or an object, not a text
RuleReply(key) ==
    [response |-> IF key \in DOMAIN ruleBasedResponses
                  THEN ruleBasedResponses[key] ELSE Nil,
     source |-> "rule_based", tokensUsed |-> 5]

\* reply.status(429).send({ error, remaining, message })
LimitReached(remaining) ==
    [status |-> 429, error |-> "Límite diario alcanzado",
     remaining |-> remaining]

\* .slice(-5) of the route's memory
MemoryWindow == 5

\* the length from which truncateResponse cuts a reply
MaxReplyLength == 300

\* recentEvents.filter(WHATSAPP_MESSAGE).slice(-5).map({ role: "user",
\* content })
WhatsappMemory(evs) ==
    LET kept == LastN(SelectSeq(evs, LAMBDA e : e.type = "WHATSAPP_MESSAGE"),
                      MemoryWindow)
    IN  [i \in 1..Len(kept) |->
            [role |-> "user", content |-> kept[i].metadata.content]]

\* if (text.length <= maxLength) return text;
\* return text.substring(0, maxLength - 3) + "..."
truncateResponse(text, maxLength) ==
    IF Len(text) <= maxLength THEN text
    ELSE SubSeq(text, 1, maxLength - 3) \o "..."

\* what the route returns after the Gemini call and the two events; the
\* durations and the cost figure of the reply are not represented
WhatsappReply(reply, remaining) ==
    [response |-> truncateResponse(reply.text, MaxReplyLength),
     source |-> "gemini-flash", tokensUsed |-> reply.tokensUsed,
     remainingDaily |-> remaining]

\* the first event of the route
WhatsappMessageEvent(id, message, segment) ==
    Event(id, "WHATSAPP_MESSAGE", [content |-> message, segment |-> segment])

\* the second event of the route
WhatsappResponseEvent(id, reply) ==
    Event(id, "WHATSAPP_RESPONSE",
          [content |-> reply.text, model |-> "gemini-flash",
           tokens |-> reply.tokensUsed])

\* POST /whatsapp/chat up to its first await: a rule answers the message,
\* or the quota is checked (the Map is updated) and the request is refused
\* with 429 or goes on to findOrCreate(`wa_${userId}`); `max` bounds the
\* requests of a behaviour
WhatsappArrive(s, userId, message, segment, max) ==
    /\ inv[s].pc \in {"idle", "done", "failed"}
    /\ started < max
    /\ started' = started + 1
    /\ IF RuleFound(messageLower(message))
       THEN /\ Set(s, [IdleSlot EXCEPT
                         !.pc = "done", !.op = "whatsapp",
                         !.message = message, !.segment = segment,
                         !.result = Return(RuleReply(messageLower(message)))])
            /\ UNCHANGED <<userCostTracker, qCall>>
       ELSE LET tokens == getUserCostLimit(userId, segment)
                r == checkTokenLimit(userCostTracker, userId, tokens, clock)
            IN  /\ userCostTracker' = r.trackers
                /\ qCall' = [userId |-> userId, tokens |-> tokens,
                             now |-> clock,
                             before |-> TrackerOf(userCostTracker, userId,
                                                  clock),
                             result |-> r.result]
                /\ Set(s, IF r.result.allowed
                          THEN [IdleSlot EXCEPT
                                  !.pc = "find", !.op = "whatsapp",
                                  !.userId = WaUserIds[userId],
                                  !.message = message, !.segment = segment,
                                  !.remaining = r.result.remaining]
                          ELSE [IdleSlot EXCEPT
                                  !.pc = "done", !.op = "whatsapp",
                                  !.message = message, !.segment = segment,
                                  !.result = Return(LimitReached(
                                                 r.result.remaining))])

\* a request arrives: POST /whatsapp/chat
WhatsappChat(s, userId, message, segment) ==
    /\ WhatsappArrive(s, userId, message, segment, MaxMessages)
    /\ UNCHANGED <<fPc, fCurrent, fSignals, fScore, fStage, tTrust, tPrev,
                   tSignals, gvars, kvars, pvars, mvars, clock, rvars,
                   providers, conversations, events, failures>>

\* const recentEvents = await eventRepo.findByConversation(
\* conversation.id); const memory = ...
WhatsappLoad(s) ==
    /\ At(s, "whatsappLoad")
    /\ Set(s, [inv[s] EXCEPT
                 !.pc = "whatsappGenerate",
                 !.history = WhatsappMemory(EventsOf(inv[s].conversation.id)),
                 !.loaded = Len(events)])
    /\ UNCHANGED <<fvars, rvars,
                     providers, conversations, events, started, failures>>

\* const result = await new GeminiAdapter(...).generateResponse({ ... }):
\* the adapter answers, with its apology when the model call fails
WhatsappGenerate(s) ==
    /\ At(s, "whatsappGenerate")
    /\ \E underlying \in {"ok", "fail"}, t \in Replies :
          Set(s, [inv[s] EXCEPT
                    !.pc = "whatsappAppendMessage",
                    !.reply = GeminiAdapter_generateResponse(
                                  1, underlying, t).value,
                    !.backendsDown = (underlying = "fail")])
    /\ UNCHANGED <<fvars, rvars,
                     providers, conversations, events, started, failures>>

\* await eventRepo.create({ type: "WHATSAPP_MESSAGE", metadata: { content,
\* segment } })
WhatsappAppendMessage(s) ==
    /\ At(s, "whatsappAppendMessage")
    /\ events' = EventRepo_create(events,
                     WhatsappMessageEvent(inv[s].conversation.id,
                                          inv[s].message, inv[s].segment))
    /\ Set(s, [Appended(s) EXCEPT !.pc = "whatsappAppendResponse"])
    /\ UNCHANGED <<fvars, rvars, providers, conversations, started, failures>>

\* await eventRepo.create({ type: "WHATSAPP_RESPONSE", ... }); return
\* { response, source, ..., remainingDaily }: the row is not updated
WhatsappAppendResponse(s) ==
    /\ At(s, "whatsappAppendResponse")
    /\ events' = EventRepo_create(events,
                     WhatsappResponseEvent(inv[s].conversation.id,
                                           inv[s].reply))
    /\ Set(s, [Appended(s) EXCEPT
                 !.pc = "done",
                 !.result = Return(WhatsappReply(inv[s].reply,
                                                 inv[s].remaining))])
    /\ UNCHANGED <<fvars, rvars, providers, conversations, started, failures>>

\* what the route returns from its catch blocks: DeepSeek's reply, else
\* OpenAI's, else 503
FallbackReply(deepseek, openai, t) ==
    IF deepseek = "ok"
    THEN [response |-> truncateResponse(t.text, MaxReplyLength),
          source |-> "deepseek", fallback |-> TRUE,
          tokensUsed |-> t.tokensUsed]
    ELSE IF openai = "ok"
    THEN [response |-> truncateResponse(t.text, MaxReplyLength),
          source |-> "gpt-mini", fallback |-> TRUE,
          tokensUsed |-> t.tokensUsed]
    ELSE [status |-> 503, error |-> "Todos los modelos fallaron"]

\* an eventRepo.create of the route rejects inside its try: catch
\* (geminiError) asks DeepSeek, then OpenAI, and returns without writing
WhatsappFallback(s) ==
    /\ inv[s].pc \in {"whatsappAppendMessage", "whatsappAppendResponse"}
    /\ failures < MaxFailures
    /\ failures' = failures + 1
    /\ \E deepseek \in {"ok", "fail"}, openai \in {"ok", "fail"},
          t \in Replies :
          Set(s, [inv[s] EXCEPT
                    !.pc = "done",
                    !.result = Return(FallbackReply(deepseek, openai, t))])
    /\ UNCHANGED <<fvars, rvars, providers, conversations, events, started>>

\* a route that touches the store only by appending events; `max` bounds
\* the requests of a behaviour
Posted(log) ==
    /\ started < MaxMessages
    /\ started' = started + 1
    /\ events' = log
    /\ UNCHANGED <<fvars, rvars, providers, conversations, inv, failures>>

\* POST /cerebro/task: const result = await llmProvider.generateResponse(
\* ...); await eventRepo.create({ conversationId: "cerebro", type:
\* "TASK_COMPLETED", metadata: taskResult }); a rejection of the router
\* becomes the 500 reply and nothing is written
CerebroTask ==
    \E outcomes \in Outcomes, t \in Replies :
        LET r == LLMRouter_call(providers, "generateResponse", outcomes,
                                [k \in 1..Len(providers) |-> t])
        IN  Posted(IF r.kind = "return"
                   THEN EventRepo_create(events,
                            Event(CerebroId, "TASK_COMPLETED",
                                  [tokensUsed |-> r.value.tokensUsed]))
                   ELSE events)

\* analyzeSentiment of a text with none of the listed words
Neutral == [sentiment |-> "neutral", score |-> 0, keywords |-> <<>>]

\* the messages of a webhook delivery: trigger says whether the text holds
\* one of the loaded escalation triggers or transfer keywords
WebhookMessages ==
    {[phone |-> "34600", text |-> "hola", trigger |-> FALSE],
     [phone |-> "34600", text |-> "quiero hablar con un humano",
      trigger |-> TRUE]}

\* POST /whatsapp/webhook, one message of the delivery: if (shouldEscalate(
\* text) || shouldTransferToHuman(text)) await eventRepo.create({
\* conversationId: "whatsapp", type: "ESCALATION_TRIGGERED", ... })
WhatsappWebhook ==
    \E msg \in WebhookMessages :
        Posted(IF msg.trigger
               THEN EventRepo_create(events,
                        Event(WhatsappId, "ESCALATION_TRIGGERED",
                              [phone |-> msg.phone, message |-> msg.text,
                               sentiment |-> Neutral]))
               ELSE events)

\* POST /whatsapp/transfer: await eventRepo.create({ conversationId:
\* "whatsapp", type: "TRANSFER_TO_HUMAN", metadata: transfer })
WhatsappTransfer ==
    Posted(EventRepo_create(events,
               Event(WhatsappId, "TRANSFER_TO_HUMAN",
                     [phone |-> "34600", reason |-> "queja",
                      priority |-> "normal", status |-> "pending",
                      assignedTo |-> Nil])))

\* POST /tenant/:slug/lead: const leadId = await bitrix.createLead(...);
\* await eventRepo.create({ conversationId: slug, type: "LEAD_CREATED",
\* ... }); a rejection of Bitrix becomes the 500 reply
TenantLead ==
    \E bitrix \in {"ok", "fail"} :
        Posted(IF bitrix = "ok"
               THEN EventRepo_create(events,
                        Event(SlugId, "LEAD_CREATED",
                              [leadId |-> 1, tenant |-> "acme",
                               name |-> "Ana", phone |-> "34600"]))
               ELSE events)

RoutesNext ==
    \/ \E s \in DOMAIN inv, r \in RouteRequests, m \in Messages :
          Start(s, r.op, r.userId, m)
    \/ \E s \in DOMAIN inv : FindExisting(s)
    \/ \E s \in DOMAIN inv : FindMissing(s)
    \/ \E s \in DOMAIN inv : Create(s)
    \/ \E s \in DOMAIN inv : AppendMessage(s)
    \/ \E s \in DOMAIN inv : Classify(s)
    \/ \E s \in DOMAIN inv : AppendSignals(s)
    \/ \E s \in DOMAIN inv : AppendStage(s)
    \/ \E s \in DOMAIN inv : Update(s)
    \/ \E s \in DOMAIN inv : UpdateRejected(s)
    \/ \E s \in DOMAIN inv : LoadHistory(s)
    \/ \E s \in DOMAIN inv : Generate(s)
    \/ \E s \in DOMAIN inv : AppendResponse(s)
    \/ \E s \in DOMAIN inv : PersistenceFails(s)
    \/ \E s \in DOMAIN inv : TalkmeLoad(s)
    \/ \E s \in DOMAIN inv : TalkmeGenerate(s)
    \/ \E s \in DOMAIN inv : TalkmeAppendMessage(s)
    \/ \E s \in DOMAIN inv : TalkmeAppendResponse(s)
    \/ \E s \in DOMAIN inv : TalkmeUpdate(s)
    \/ \E s \in DOMAIN inv : TenantLoad(s)
    \/ \E s \in DOMAIN inv : TenantGenerate(s)
    \/ \E s \in DOMAIN inv : TenantAppendMessage(s)
    \/ \E s \in DOMAIN inv : TenantAppendResponse(s)
    \/ \E s \in DOMAIN inv, message \in WhatsappMessages :
          WhatsappChat(s, "wa1", message, "venta")
    \/ \E s \in DOMAIN inv : WhatsappLoad(s)
    \/ \E s \in DOMAIN inv : WhatsappGenerate(s)
    \/ \E s \in DOMAIN inv : WhatsappAppendMessage(s)
    \/ \E s \in DOMAIN inv : WhatsappAppendResponse(s)
    \/ \E s \in DOMAIN inv : WhatsappFallback(s)
    \/ CerebroTask
    \/ WhatsappWebhook
    \/ WhatsappTransfer
    \/ TenantLead

InitRoutes == FInit /\ RInit /\ RoutesInit

SpecRoutes == InitRoutes /\ [][RoutesNext]_vars

-----------------------------------------------------------------------------
(* SpecOverlap: two request slots serving one user.  The steps are those of *)
(* Spec; invocations of the two slots interleave at their awaits.           *)

OverlapSlots == {1, 2}
OverlapUsers == {"u1"}

OverlapInit ==
    /\ providers = DeployedProviders
    /\ conversations = EmptyStore
    /\ events = <<>>
    /\ inv = [s \in OverlapSlots |-> IdleSlot]
    /\ started = 0
    /\ failures = 0

\* each slot serves one request
OverlapStart(s, op, u, m) == inv[s].pc = "idle" /\ Start(s, op, u, m)

OverlapNext ==
    \/ \E s \in DOMAIN inv, op \in {"tag", "chat"}, u \in OverlapUsers,
          m \in Messages : OverlapStart(s, op, u, m)
    \/ \E s \in DOMAIN inv : FindExisting(s)
    \/ \E s \in DOMAIN inv : FindMissing(s)
    \/ \E s \in DOMAIN inv : Create(s)
    \/ \E s \in DOMAIN inv : AppendMessage(s)
    \/ \E s \in DOMAIN inv : Classify(s)
    \/ \E s \in DOMAIN inv : AppendSignals(s)
    \/ \E s \in DOMAIN inv : AppendStage(s)
    \/ \E s \in DOMAIN inv : Update(s)
    \/ \E s \in DOMAIN inv : UpdateRejected(s)
    \/ \E s \in DOMAIN inv : LoadHistory(s)
    \/ \E s \in DOMAIN inv : Generate(s)
    \/ \E s \in DOMAIN inv : AppendResponse(s)
    \/ \E s \in DOMAIN inv : PersistenceFails(s)

InitOverlap == FInit /\ RInit /\ OverlapInit

SpecOverlap == InitOverlap /\ [][OverlapNext]_vars

-----------------------------------------------------------------------------
(* SpecHistory: tag and chat requests of one user on a store that earlier   *)
(* requests have filled.  The earlier requests carry numbered contents, so  *)
(* that order and origin can be read back from a history.                   *)

HistoryClassification ==
    [tags |-> <<"debug">>, signals |-> <<"DEBUG_REQUEST">>,
     tokensUsed |-> 1000]

\* the i-th earlier request: tag-messages and chats of u1 in turn
EarlierEntry(i) ==
    IF i % 2 = 1
    THEN TagEntry("u1", ToString(i), AllOk, HistoryClassification)
    ELSE ChatEntry("u1", "hola", AllOk,
                   [text |-> ToString(i), tokensUsed |-> 1000])

\* a request of another user, served before all of them
ForeignEntry == TagEntry("u2", "hola", AllOk, HistoryClassification)

\* the stores a request may find: after up to MaxLogged earlier requests,
\* with or without a conversation of another user
HistoryStores ==
    {ServeAll(FreshStore(1), lead \o [i \in 1..n |-> EarlierEntry(i)]) :
        n \in 0..MaxLogged, lead \in {<<>>, <<ForeignEntry>>}}

HistoryInit ==
    /\ providers = DeployedProviders
    /\ \E store \in HistoryStores :
           /\ conversations = store.conversations
           /\ events = store.events
    /\ inv = [s \in OverlapSlots |-> IdleSlot]
    /\ started = 0
    /\ failures = 0

HistoryClassify(s) ==
    /\ Classified(s, AllOk, HistoryClassification)
    /\ UNCHANGED <<fvars, rvars,
                     providers, conversations, events, started, failures>>

HistoryGenerate(s) ==
    /\ \E t \in Replies : Generated(s, AllOk, t)
    /\ UNCHANGED <<fvars, rvars,
                     providers, conversations, events, started, failures>>

HistoryNext ==
    \/ \E s \in DOMAIN inv, op \in {"tag", "chat"}, m \in Messages :
           Start(s, op, "u1", m)
    \/ \E s \in DOMAIN inv : FindExisting(s)
    \/ \E s \in DOMAIN inv : FindMissing(s)
    \/ \E s \in DOMAIN inv : Create(s)
    \/ \E s \in DOMAIN inv : AppendMessage(s)
    \/ \E s \in DOMAIN inv : HistoryClassify(s)
    \/ \E s \in DOMAIN inv : AppendSignals(s)
    \/ \E s \in DOMAIN inv : AppendStage(s)
    \/ \E s \in DOMAIN inv : Update(s)
    \/ \E s \in DOMAIN inv : LoadHistory(s)
    \/ \E s \in DOMAIN inv : HistoryGenerate(s)
    \/ \E s \in DOMAIN inv : AppendResponse(s)

InitHistory == FInit /\ RInit /\ HistoryInit

SpecHistory == InitHistory /\ [][HistoryNext]_vars

-----------------------------------------------------------------------------
(* SpecTrust: tag-messages of one user, overlapping or not, on a store in   *)
(* which earlier tag-messages have moved the user's trust to any level it   *)
(* can reach.  tPrev, tSignals and tTrust record the trust read, the        *)
(* signals used and the trust written by the latest update.                 *)

TrustSignalLists ==
    {<<>>, <<"POSITIVE_EMOTION">>, <<"OBJECTION">>,
     <<"POSITIVE_EMOTION", "OBJECTION">>}

TrustClassification(signals) ==
    [tags |-> <<"mood">>, signals |-> signals, tokensUsed |-> 0]

\* the tag-messages with one signal that take a new conversation's trust
\* to the end of its range
ToTheEnd == (100 - NewConversation(1, "u1").trustLevel) \div 5

\* the stores a request may find: new, or after earlier tag-messages that
\* all carried the same signal and took the trust to the end of its range
\* or one step short of it
TrustStores ==
    {ServeAll(FreshStore(1),
              [i \in 1..n |->
                  TagEntry("u1", "hola", AllOk,
                           TrustClassification(<<signal>>))]) :
        n \in {0, ToTheEnd - 1, ToTheEnd},
        signal \in {"POSITIVE_EMOTION", "OBJECTION"}}

TrustInit ==
    /\ fPc = "input" /\ fCurrent = 0 /\ fSignals = <<>>
    /\ fScore = 0 /\ fStage = "triage"
    /\ GInit /\ KInit /\ PInit /\ XInit
    /\ providers = DeployedProviders
    /\ \E store \in TrustStores :
           /\ conversations = store.conversations
           /\ events = store.events
           /\ tTrust = (IF "u1" \in DOMAIN store.conversations
                        THEN store.conversations["u1"].trustLevel
                        ELSE NewConversation(1, "u1").trustLevel)
    /\ tPrev = tTrust
    /\ tSignals = <<>>
    /\ inv = [s \in OverlapSlots |-> IdleSlot]
    /\ started = 0
    /\ failures = 0

TrustClassify(s) ==
    /\ \E signals \in TrustSignalLists :
          Classified(s, AllOk, TrustClassification(signals))
    /\ UNCHANGED <<fvars, rvars,
                     providers, conversations, events, started, failures>>

\* the update of a tag-message, noted
TrustUpdate(s) ==
    /\ Updated(s)
    /\ tPrev' = inv[s].conversation.trustLevel
    /\ tSignals' = inv[s].classification.signals
    /\ tTrust' = conversations'[inv[s].userId].trustLevel
    /\ UNCHANGED <<fPc, fCurrent, fSignals, fScore, fStage, gvars, kvars,
                   pvars, xvars, rvars, providers, events, started,
                   failures>>

TrustNext ==
    \/ \E s \in DOMAIN inv, m \in Messages : Start(s, "tag", "u1", m)
    \/ \E s \in DOMAIN inv : FindExisting(s)
    \/ \E s \in DOMAIN inv : FindMissing(s)
    \/ \E s \in DOMAIN inv : Create(s)
    \/ \E s \in DOMAIN inv : AppendMessage(s)
    \/ \E s \in DOMAIN inv : TrustClassify(s)
    \/ \E s \in DOMAIN inv : AppendSignals(s)
    \/ \E s \in DOMAIN inv : AppendStage(s)
    \/ \E s \in DOMAIN inv : TrustUpdate(s)

InitTrust == TrustInit /\ RInit

SpecTrust == InitTrust /\ [][TrustNext]_vars

-----------------------------------------------------------------------------
(* SpecLedger: tag-messages of one new user, each sent when the one before  *)
(* it has settled.  gPrev and gRow are the row before and after the latest  *)
(* update, gGains the sum of the rises of currentScore, gUpdates the number *)
(* of updates and gCount the number of invocations that have settled.       *)

LedgerSignalLists ==
    {<<>>, <<"ARCHITECTURE_DESIGN">>, <<"DEBUG_REQUEST">>,
     <<"TECHNICAL_BLOCKER">>, <<"TECHNICAL_BLOCKER", "TECHNICAL_BLOCKER">>,
     <<"constructor">>}

LedgerClassification(signals) ==
    [tags |-> <<>>, signals |-> signals, tokensUsed |-> 0]

LedgerInit ==
    /\ fPc = "input" /\ fCurrent = 0 /\ fSignals = <<>>
    /\ fScore = 0 /\ fStage = "triage"
    /\ TInit /\ KInit /\ PInit /\ XInit
    /\ gRow = NewConversation(1, "u1")
    /\ gPrev = NewConversation(1, "u1")
    /\ gGains = 0
    /\ gCount = 0
    /\ gUpdates = 0
    /\ providers = DeployedProviders
    /\ conversations = EmptyStore
    /\ events = <<>>
    /\ inv = [s \in Slots |-> IdleSlot]
    /\ started = 0
    /\ failures = 0

LedgerStart(s, m) ==
    /\ Arrive(s, "tag", "u1", m, MaxTagged)
    /\ UNCHANGED <<fvars, rvars, providers, conversations, events, failures>>

LedgerClassify(s) ==
    /\ \E signals \in LedgerSignalLists :
          Classified(s, AllOk, LedgerClassification(signals))
    /\ UNCHANGED <<fvars, rvars,
                     providers, conversations, events, started, failures>>

\* a tag-message completes: its update, noted
TagLedger(s) ==
    /\ Updated(s)
    /\ gPrev' = conversations[inv[s].userId]
    /\ gRow' = conversations'[inv[s].userId]
    /\ gGains' = gGains + Max(0, conversations'[inv[s].userId].currentScore
                                    - conversations[inv[s].userId].currentScore)
    /\ gCount' = gCount + 1
    /\ gUpdates' = gUpdates + 1
    /\ UNCHANGED <<fPc, fCurrent, fSignals, fScore, fStage,
                   tTrust, tPrev, tSignals, kvars, pvars, xvars, rvars,
                   providers, events, started, failures>>

\* a tag-message whose update the store refuses: the rejection leaves
\* execute and the row stays as it was
TagLedgerRejected(s) ==
    /\ Rejected(s)
    /\ gPrev' = gRow
    /\ gCount' = gCount + 1
    /\ UNCHANGED <<fPc, fCurrent, fSignals, fScore, fStage, gRow, gGains,
                   gUpdates, tTrust, tPrev, tSignals, kvars, pvars, xvars,
                   rvars, providers, conversations, events, started,
                   failures>>

LedgerNext ==
    \/ \E s \in DOMAIN inv, m \in Messages : LedgerStart(s, m)
    \/ \E s \in DOMAIN inv : FindExisting(s)
    \/ \E s \in DOMAIN inv : FindMissing(s)
    \/ \E s \in DOMAIN inv : Create(s)
    \/ \E s \in DOMAIN inv : AppendMessage(s)
    \/ \E s \in DOMAIN inv : LedgerClassify(s)
    \/ \E s \in DOMAIN inv : AppendSignals(s)
    \/ \E s \in DOMAIN inv : AppendStage(s)
    \/ \E s \in DOMAIN inv : TagLedger(s)
    \/ \E s \in DOMAIN inv : TagLedgerRejected(s)

InitLedger == LedgerInit /\ RInit

SpecLedger == InitLedger /\ [][LedgerNext]_vars

-----------------------------------------------------------------------------
(* Properties of the router (SpecRouter) *)

UpTo(n) == [i \in 1..n |-> i]

\* C1: within one router call the backends are invoked in list order, one at
\* a time (never two calls in flight), each at most once; backend k is
\* invoked only after backends 1..k-1 have all failed in this call; nothing
\* is invoked after a backend has succeeded.
C1_SequentialOrderedFallback ==
    /\ Cardinality(rInFlight) <= 1
    /\ rInvoked = UpTo(Len(rInvoked))
    /\ \A i \in 1..Len(rInvoked) : \A j \in 1..(i - 1) :
           /\ Settled(rInvoked[j]).kind = "throw"
           /\ rInvoked[j] \notin rInFlight
           /\ rInvoked[j] \in Range(rWarnings)
    /\ rPc = "returned" =>
           /\ rInFlight = {}
           /\ Settled(Last(rInvoked)).kind = "return"

\* C1 witness: two backends failed, the third was invoked and succeeded
C1_Witness ==
    /\ rVariant = "list" /\ rPc = "returned"
    /\ rInvoked = <<1, 2, 3>>
    /\ rWarnings = <<1, 2>>
    /\ rInFlight = {}

\* C2: when every backend of the list fails, the error thrown to the caller
\* is the error of the last backend tried, not the first.
C2_ExhaustionSurfacesLastError ==
    (rPc = "thrown" /\ Len(rProviders) >= 1) =>
        /\ rInvoked = UpTo(Len(rProviders))
        /\ rResult = Throw(BackendError(Last(rInvoked)))
        /\ Len(rProviders) >= 2 => rResult # Throw(BackendError(1))

\* C2 witness: [A fails with E1, B fails with E2] ends with E2
C2_Witness ==
    /\ rVariant = "list" /\ rPc = "thrown"
    /\ Len(rProviders) = 2
    /\ rResult = Throw(BackendError(2))

\* C3: when the router returns after k-1 failures, the value is exactly what
\* backend k returned, and one warning per failed backend 1..k-1 has been
\* logged by then.
C3_FallbackReturnsFirstSuccess ==
    rPc = "returned" =>
        LET k == Last(rInvoked)
        IN  /\ rResult = Settled(k)
            /\ rOutcomes[k] = "ok" => rResult = Return(RouterPayload(rOp, k))
            /\ rWarnings = UpTo(k - 1)

\* C3 witness: [A fails, B fails, C succeeds] has returned C's result
C3_Witness ==
    /\ rVariant = "list" /\ rPc = "returned"
    /\ Len(rProviders) = 3
    /\ rOutcomes = <<"fail", "fail", "ok">>
    /\ rResult = Return(RouterPayload(rOp, 3))

-----------------------------------------------------------------------------
(* Properties of the orchestrators (Spec) *)

TagSlots == {s \in DOMAIN inv : inv[s].op = "tag"}
ChatSlots == {s \in DOMAIN inv : inv[s].op = "chat"}

RowOf(s) == conversations[inv[s].userId]

\* C4: when the router's classify rejects during TagMessage.execute, the
\* rejection is not propagated: the invocation uses tags ["UNCLASSIFIED"],
\* signals [] and zero tokens; once it has returned, its cost is 0, score and
\* trust are persisted as read, the stage is the one derived from that score,
\* conversationCost is as read and messageCount is one more.  No tag-message
\* invocation ever ends with a backend's error.
C4_TaggingDegradation ==
    \A s \in TagSlots :
        /\ (inv[s].pc = "failed") => (inv[s].result = Throw(PersistenceError))
        /\ inv[s].routerThrew =>
             /\ inv[s].classification =
                    [tags |-> <<"UNCLASSIFIED">>, signals |-> <<>>,
                     tokensUsed |-> 0]
             /\ (inv[s].pc = "done") =>
                  LET c == inv[s].conversation
                      row == RowOf(s)
                      out == inv[s].result.value
                  IN  /\ inv[s].result.kind = "return"
                      /\ out.tags = <<"UNCLASSIFIED">>
                      /\ out.signals = <<>>
                      /\ out.cost = DblZero
                      /\ out.currentScore = c.currentScore
                      /\ out.trustLevel = c.trustLevel
                      /\ out.stage = deriveStage(c.currentScore)
                      /\ row.currentScore = c.currentScore
                      /\ row.trustLevel = c.trustLevel
                      /\ row.stage = deriveStage(c.currentScore)
                      /\ row.conversationCost = c.conversationCost
                      /\ row.messageCount = c.messageCount + 1

\* C4 witness: a conversation with score 30 and a cost was tagged while the
\* router was exhausted, and the invocation returned
C4_Witness ==
    \E s \in TagSlots :
        /\ inv[s].routerThrew /\ inv[s].pc = "done"
        /\ inv[s].conversation.currentScore = 30
        /\ DblGt(inv[s].conversation.conversationCost, DblZero)
        /\ RowOf(s).messageCount = 2

\* C5 (as claimed): when every configured backend's call fails during
\* GenerateResponse.execute, the invocation ends with an error: it holds no
\* reply and appends no assistant-response event.
C5_GenerationFailsExplicitly ==
    \A s \in ChatSlots :
        inv[s].backendsDown =>
            /\ inv[s].pc = "failed"
            /\ inv[s].reply = Nil
            /\ \A i \in 1..Len(events) :
                   ~(/\ events[i].conversationId = inv[s].conversation.id
                     /\ events[i].type = "ASSISTANT_RESPONSE"
                     /\ events[i].metadata.content = GeminiApology.text)

-----------------------------------------------------------------------------
(* Properties of the scoring engine (SpecScore, SpecTrust, Spec) *)

\* the weight the specification gives a signal name: its table entry, and 0
\* for every name that is not a key of the table
TableWeight(s) == IF s \in WeightKeys THEN weights(s) ELSE 0

RECURSIVE SumTableWeights(_)
SumTableWeights(signals) ==
    IF signals = <<>> THEN 0
    ELSE TableWeight(Head(signals)) + SumTableWeights(Tail(signals))

\* C6 (as claimed): updateScore(current, signals) is
\* max(0, current + sum of the table weights), every name outside the table
\* counting 0 and the result always being a number.
C6_UpdateScoreIsClampedSum ==
    fPc = "scored" =>
        /\ fScore # NaN
        /\ fScore = Max(0, fCurrent + SumTableWeights(fSignals))

\* x >= y on JavaScript numbers (false when either is NaN)
JsGe(a, b) == a # NaN /\ b # NaN /\ a >= b

\* C7 (as claimed): updateScore returns a value >= 0 for every non-negative
\* current score and every signal list, and every persisted currentScore
\* is >= 0.
C7_ScoreNeverNegative ==
    /\ fPc = "scored" => JsGe(fScore, 0)
    /\ \A u \in DOMAIN conversations :
           JsGe(conversations[u].currentScore, 0)

\* C8: a conversation is created with trustLevel 50, the persisted
\* trustLevel of every conversation stays within [0,100], and each
\* tag-message persists the trust it read plus its trust delta, cut off at 0
\* and at 100.
C8_TrustWithinBounds ==
    /\ \A s \in DOMAIN inv :
           inv[s].created => inv[s].conversation.trustLevel = 50
    /\ \A u \in DOMAIN conversations :
           conversations[u].trustLevel \in 0..100
    /\ tTrust \in 0..100
    /\ LET t == tPrev + TrustDelta(tSignals)
       IN  tTrust = IF t < 0 THEN 0 ELSE IF t > 100 THEN 100 ELSE t

\* C8 witness: a conversation read at trust 100 received a positive-emotion
\* signal and was written at 100, while the row had been moved by an
\* overlapping tag-message in between
C8_Witness ==
    /\ tPrev = 100 /\ tSignals = <<"POSITIVE_EMOTION">> /\ tTrust = 100
    /\ \E s \in DOMAIN inv :
           /\ inv[s].pc = "done"
           /\ inv[s].conversation.trustLevel = 95

\* C9 (as claimed): a classification holding both the positive-emotion signal
\* and the objection signal leaves the trust as it was read.
C9_BothSignalsCancel ==
    \A s \in TagSlots :
        (/\ inv[s].pc = "done"
         /\ {"POSITIVE_EMOTION", "OBJECTION"}
                \subseteq Range(inv[s].classification.signals)) =>
            /\ inv[s].result.value.trustLevel = inv[s].conversation.trustLevel
            /\ RowOf(s).trustLevel = inv[s].conversation.trustLevel

StageChangesOf(id) ==
    SelectSeq(EventsOf(id), LAMBDA e : e.type = "STAGE_CHANGE")

\* C10: for a user who had no conversation, a tag-message classified with
\* exactly ARCHITECTURE_DESIGN yields score 30 and stage "analysis", and the
\* conversation's log then holds exactly one stage-changed event, from the
\* stage the conversation was created with to "analysis".
C10_FirstMessageArchitecture ==
    \A s \in TagSlots :
        (/\ inv[s].pc = "done" /\ inv[s].created
         /\ inv[s].classification.signals = <<"ARCHITECTURE_DESIGN">>) =>
            LET c == inv[s].conversation
                out == inv[s].result.value
                changes == StageChangesOf(c.id)
            IN  /\ out.currentScore = 30 /\ RowOf(s).currentScore = 30
                /\ out.stage = "analysis" /\ RowOf(s).stage = "analysis"
                /\ Len(changes) = 1
                /\ changes[1].metadata =
                       [from |-> NewConversation(c.id, c.userId).stage,
                        to |-> "analysis"]

\* C10 witness: such an invocation has returned
C10_Witness ==
    \E s \in TagSlots :
        /\ inv[s].pc = "done" /\ inv[s].created
        /\ inv[s].classification.signals = <<"ARCHITECTURE_DESIGN">>
        /\ RowOf(s).currentScore = 30

-----------------------------------------------------------------------------
(* Properties of the score columns (SpecLedger) *)

\* C11: after any sequence of tag-messages run one after another for one
\* user, cumulativeScore is the sum of the positive parts of the changes of
\* currentScore, and no tag-message lowers it
C11_CumulativeIsSumOfGains ==
    /\ \A u \in DOMAIN conversations :
           conversations[u].cumulativeScore = gGains
    /\ gRow.cumulativeScore = gGains
    /\ gRow.cumulativeScore >= gPrev.cumulativeScore

\* C11 happens: after three tag-messages the score has fallen and been
\* clamped at 0 while gains had been recorded
C11_Witness ==
    /\ gCount >= 3
    /\ gPrev.currentScore > 0
    /\ gRow.currentScore = 0
    /\ gRow.cumulativeScore > 0

-----------------------------------------------------------------------------
(* Properties of overlapping invocations (SpecOverlap) *)

\* the two invocations have both returned from tag-message for one user,
\* and both had read the same row (neither had written when the other read)
BothTaggedFromSameRow(s, t) ==
    /\ s # t
    /\ inv[s].op = "tag" /\ inv[t].op = "tag"
    /\ inv[s].pc = "done" /\ inv[t].pc = "done"
    /\ inv[s].userId = inv[t].userId
    /\ inv[s].conversation = inv[t].conversation

\* C12 (as claimed): when two tag-messages for one user overlap (both read
\* the row before either writes), the persisted conversationCost after both
\* is the cost before them plus the message cost of both
C12_NoLostCostIncrement ==
    \A s, t \in DOMAIN inv :
        BothTaggedFromSameRow(s, t) =>
            conversations[inv[s].userId].conversationCost =
                DblAdd(DblAdd(inv[s].conversation.conversationCost,
                              MessageCost(inv[s].classification)),
                       MessageCost(inv[t].classification))

\* C20 (as claimed): every findOrCreate(userId) call, overlapping calls for
\* a new user included, returns the one conversation of that user: no call
\* is rejected because the row exists, and every conversation an
\* invocation holds is the stored row of its user
C20_OneConversationPerUser ==
    \A s \in DOMAIN inv :
        /\ inv[s].result # Throw(UniqueConstraintError)
        /\ inv[s].conversation # Nil =>
               /\ inv[s].userId \in DOMAIN conversations
               /\ conversations[inv[s].userId].id = inv[s].conversation.id
               /\ conversations[inv[s].userId].userId = inv[s].userId

-----------------------------------------------------------------------------
(* Properties of deriveStage (SpecScore) *)

\* the stage order: triage < analysis < implementation < review
StageOrder == <<"triage", "analysis", "implementation", "review">>

StageRank(stage) == CHOOSE i \in 1..Len(StageOrder) : StageOrder[i] = stage

\* scores deriveStage is compared on
StageScores == (0 - 10)..MaxCurrent

\* C13: deriveStage is monotonic non-decreasing in the score for the order
\* triage < analysis < implementation < review; on non-negative scores its
\* values are exactly these four stages, changing at 25, 50 and 80
C13_DeriveStageMonotonic ==
    /\ \A st \in Range(StageOrder) :
           \E x \in StageScores : x >= 0 /\ deriveStage(x) = st
    /\ (fPc = "scored" /\ fScore # NaN) =>
           /\ fStage \in Range(StageOrder)
           /\ fStage = "triage" <=> fScore < 25
           /\ fStage = "analysis" <=> (25 <= fScore /\ fScore < 50)
           /\ fStage = "implementation" <=> (50 <= fScore /\ fScore < 80)
           /\ fStage = "review" <=> 80 <= fScore
           /\ \A x \in StageScores :
                  /\ deriveStage(x) \in Range(StageOrder)
                  /\ x <= fScore =>
                         StageRank(deriveStage(x)) <= StageRank(fStage)
                  /\ x >= fScore =>
                         StageRank(deriveStage(x)) >= StageRank(fStage)

\* C13 happens: a score on the last boundary has been staged
C13_Witness ==
    fPc = "scored" /\ fScore = 80 /\ fStage = "review" /\ fCurrent = 50

-----------------------------------------------------------------------------
(* Properties of the CostTracker (SpecCost) *)

Called(op) == kCall # <<>> /\ kCall.op = op

\* C14: isOverBudget(totalCost) is true exactly when totalCost is at least
\* the configured threshold; a total equal to the threshold is over budget
C14_OverBudgetIffAtLeastThreshold ==
    Called("isOverBudget") =>
        /\ kCall.result = TRUE <=>
               DblCmp(kCall.arg, costTracker.budgetThreshold) >= 0
        /\ kCall.arg = costTracker.budgetThreshold => kCall.result = TRUE
        /\ DblCmp(kCall.arg, costTracker.budgetThreshold) < 0 =>
               kCall.result = FALSE

\* C14 happens: the deployed threshold itself has been tested
C14_Witness ==
    /\ Called("isOverBudget")
    /\ costTracker.budgetThreshold = budgetThreshold
    /\ kCall.arg = budgetThreshold
    /\ kCall.result = TRUE

\* C15 (as claimed): no CostTracker with a negative costPer1kTokens or a
\* negative budgetThreshold ever exists
C15_NegativeConfigRejected ==
    costTracker # <<>> =>
        /\ DblGe(costTracker.costPer1kTokens, DblZero)
        /\ DblGe(costTracker.budgetThreshold, DblZero)

\* C16 (as claimed): calculateCost(tokensUsed) is
\* (tokensUsed / 1000) * costPer1kTokens, it is additive in tokensUsed
\* (calculateCost(a + b) = calculateCost(a) + calculateCost(b)), and it is
\* 0 for 0 tokens
C16_CalculateCostLinear ==
    Called("calculateCost") =>
        /\ kCall.result =
               DblMul(DblDivInt(DblOfInt(kCall.arg), 1000),
                      costTracker.costPer1kTokens)
        /\ kCall.arg = 0 => kCall.result = DblZero
        /\ \A b \in TokenCounts :
               CostTracker_calculateCost(costTracker, kCall.arg + b) =
                   DblAdd(kCall.result,
                          CostTracker_calculateCost(costTracker, b))

-----------------------------------------------------------------------------
(* Properties of the orchestrators' results (Spec) *)

ScoringColumns ==
    {"currentScore", "cumulativeScore", "lastTags", "trustLevel", "stage",
     "messageCount", "conversationCost", "overBudget"}

\* C17: a tag-message that succeeds returns the currentScore, stage,
\* trustLevel and tags its update persisted, the signals of the
\* classification it used, and as cost the cost of this message alone
\* (what its update added to conversationCost), not the accumulated cost
C17_TagReturnsWhatItPersisted ==
    \A s \in TagSlots :
        inv[s].pc = "done" =>
            LET out == inv[s].result.value
                row == RowOf(s)
            IN  /\ inv[s].result.kind = "return"
                /\ out.currentScore = row.currentScore
                /\ out.stage = row.stage
                /\ out.trustLevel = row.trustLevel
                /\ out.tags = row.lastTags
                /\ out.signals = inv[s].classification.signals
                /\ out.cost =
                       calculateCost(inv[s].classification.tokensUsed)
                /\ row.conversationCost =
                       DblAdd(inv[s].conversation.conversationCost, out.cost)

\* C17 happens: a tag-message with a cost returned on a conversation that
\* already had a cost
C17_Witness ==
    \E s \in TagSlots :
        /\ inv[s].pc = "done"
        /\ DblGt(inv[s].conversation.conversationCost, DblZero)
        /\ DblGt(inv[s].result.value.cost, DblZero)
        /\ DblGt(RowOf(s).conversationCost, inv[s].result.value.cost)

\* C18: a GenerateResponse.execute invocation changes none of the scoring
\* columns of its conversation, whether it succeeds or fails, and returns
\* the stage and trustLevel it read
C18_GenerationLeavesScoringState ==
    \A s \in ChatSlots :
        inv[s].conversation # Nil =>
            /\ \A col \in ScoringColumns :
                   RowOf(s)[col] = inv[s].conversation[col]
            /\ inv[s].pc = "done" =>
                   /\ inv[s].result.kind = "return"
                   /\ inv[s].result.value.stage = inv[s].conversation.stage
                   /\ inv[s].result.value.trustLevel =
                          inv[s].conversation.trustLevel

\* C18 happens: a chat returned on a conversation that a tag-message had
\* scored and whose trust it had lowered
C18_Witness ==
    \E s \in ChatSlots :
        /\ inv[s].pc = "done"
        /\ ~inv[s].created
        /\ inv[s].conversation.messageCount = 1
        /\ inv[s].conversation.trustLevel = 45
        /\ inv[s].result.value.trustLevel = 45

-----------------------------------------------------------------------------
(* Properties of the dialogue history (SpecHistory) *)

\* positions in the log of the conversation's message-received and
\* assistant-response events
DialoguePositions(log, id) ==
    {i \in 1..Len(log) :
        /\ log[i].conversationId = id
        /\ log[i].type \in {"MESSAGE", "ASSISTANT_RESPONSE"}}

\* the position that has exactly k dialogue positions at or after it
KthFromEnd(D, k) == CHOOSE i \in D : Cardinality({j \in D : j >= i}) = k

\* the log as it was when the invocation read it (the log only grows)
LogRead(s) == SubSeq(events, 1, inv[s].loaded)

\* C19: the history handed to the backend is the last min(10, n) of the n
\* message-received / assistant-response events the conversation had when
\* its events were read, in creation order, as role "user" / "assistant"
\* with the event's content; no other event appears in it
C19_HistoryIsLastTenDialogueEvents ==
    \A s \in ChatSlots :
        inv[s].pc = "generate" =>
            LET D == DialoguePositions(LogRead(s), inv[s].conversation.id)
                n == Cardinality(D)
                h == inv[s].history
            IN  /\ Len(h) = (IF n < 10 THEN n ELSE 10)
                /\ \A j \in 1..Len(h) :
                       LET e == events[KthFromEnd(D, Len(h) - j + 1)]
                       IN  /\ h[j].content = e.metadata.content
                           /\ e.type = "MESSAGE" => h[j].role = "user"
                           /\ e.type = "ASSISTANT_RESPONSE" =>
                                  h[j].role = "assistant"

\* C19 happens: the history was cut to 10 out of more dialogue events, of
\* both roles, from a log that also holds other events, while a tag-message
\* of the same user was under way
C19_Witness ==
    \E s \in ChatSlots :
        /\ inv[s].pc = "generate"
        /\ Cardinality(DialoguePositions(LogRead(s),
                                         inv[s].conversation.id)) > 10
        /\ Len(inv[s].history) = 10
        /\ \E i \in 1..inv[s].loaded : events[i].type = "SIGNALS_DETECTED"
        /\ \E i \in 1..inv[s].loaded :
               events[i].conversationId # inv[s].conversation.id
        /\ \E j, k \in 1..10 : /\ inv[s].history[j].role = "user"
                                /\ inv[s].history[k].role = "assistant"
        /\ inv[s].history[10].content = "hola"
        /\ \E t \in TagSlots : inv[t].pc = "classify"

-----------------------------------------------------------------------------
(* Properties of the store under all its writers (SpecRoutes) *)

\* C21: the event log is append-only: every step of the orchestrators, the
\* routes and the event repository leaves the events written so far in
\* place and unchanged, so each earlier log is a prefix of each later one
C21_EventLogAppendOnly ==
    [][/\ Len(events') >= Len(events)
       /\ SubSeq(events', 1, Len(events)) = events]_vars

\* C21 happens: the ten events of earlier sessions are still the first ten
\* of the log after a tag-message and a task have written theirs
C21_Witness ==
    /\ Len(events) >= 12
    /\ SubSeq(events, 1, 10) = BusyLog
    /\ \E i \in 11..Len(events) : events[i].type = "MESSAGE"
    /\ \E i \in 11..Len(events) : events[i].type = "TASK_COMPLETED"

\* C29 (as claimed): in every persisted conversation state, overBudget is
\* (conversationCost >= budgetThreshold)
C29_OverBudgetDerivedFromCost ==
    \A u \in DOMAIN conversations :
        conversations[u].overBudget =
            DblGe(conversations[u].conversationCost, budgetThreshold)

-----------------------------------------------------------------------------
(* Properties of replay (SpecReplay) *)

\* a row without its id
RowState(row) ==
    [userId |-> row.userId, currentScore |-> row.currentScore,
     cumulativeScore |-> row.cumulativeScore, lastTags |-> row.lastTags,
     trustLevel |-> row.trustLevel, stage |-> row.stage,
     messageCount |-> row.messageCount,
     conversationCost |-> row.conversationCost,
     overBudget |-> row.overBudget]

\* what the claim compares: the rows without ids, and the types and
\* metadata of the events in order
DerivedState(store) ==
    [rows |-> [u \in DOMAIN store.conversations |->
                  RowState(store.conversations[u])],
     log |-> [i \in 1..Len(store.events) |->
                 [type |-> store.events[i].type,
                  metadata |-> store.events[i].metadata]]]

\* C22: the same sequence of tag-message and generate-response inputs with
\* the same backend results, run against two fresh stores, gives after each
\* request the same conversation state (ids and timestamps aside) and the
\* same sequence of event types and metadata in both
C22_ReplayDeterminism ==
    \A k \in 1..Min(Len(storeA), Len(storeB)) :
        DerivedState(storeA[k]) = DerivedState(storeB[k])

\* C22 happens: both stores have served a script of two requests that
\* changed a stage and gave a reply, and their rows carry different ids
C22_Witness ==
    /\ Len(script) >= 2
    /\ Len(storeA) = Len(script) + 1 /\ Len(storeB) = Len(script) + 1
    /\ LET a == Last(storeA)
           b == Last(storeB)
       IN  /\ \E i \in 1..Len(a.events) : a.events[i].type = "STAGE_CHANGE"
           /\ \E i \in 1..Len(a.events) :
                  a.events[i].type = "ASSISTANT_RESPONSE"
           /\ DOMAIN a.conversations # {}
           /\ \A u \in DOMAIN a.conversations :
                  a.conversations[u].id # b.conversations[u].id

-----------------------------------------------------------------------------
(* What the ScoreEngine test expects of the engine (SpecScore) *)

\* C23 (as the test asserts): updateScore(c, ["BUY_INTENT"]) = c + 25 and
\* updateScore(c, ["OBJECTION"]) = max(0, c - 10) for every c >= 0
C23_TestWeightsApplied ==
    fPc = "scored" =>
        /\ fSignals = <<"BUY_INTENT">> => fScore = fCurrent + 25
        /\ fSignals = <<"OBJECTION">> => fScore = Max(0, fCurrent - 10)

\* C24 (as the test asserts): deriveStage maps low scores to "discovery"
\* and high scores to "close"; the test's points are 10 and 90
C24_TestStagesDerived ==
    fPc = "scored" =>
        /\ fScore = 10 => fStage = "discovery"
        /\ fScore = 90 => fStage = "close"

-----------------------------------------------------------------------------
(* The adapters' failure contract and the deployed fallback chain           *)
(* (SpecRouter)                                                             *)

\* C25 (as claimed): a backend whose underlying model call failed settles
\* the router's pending call with a thrown error, for classify and for
\* generateResponse, so the router never returns a result that comes from
\* a failed call
C25_FailureIsThrown ==
    /\ rPc = "awaiting" /\ rOutcomes[rIdx] = "fail" =>
           Settled(rIdx).kind = "throw"
    /\ rPc = "returned" => rOutcomes[rIdx] = "ok"

\* the router's call is over
RouterDone == rPc \in {"returned", "thrown"}

\* the model calls of the backends before position k all fail
AllFailBefore(k) == \A j \in 1..(k - 1) : rOutcomes[j] = "fail"

\* C26 (as claimed): with the deployed order every position k is reached
\* when the model calls of backends 1..k-1 all fail.  The router's run is
\* fixed by the calls' fates, so the execution the claim asks for exists
\* exactly when every finished call with those fates has invoked k
C26_EveryBackendReachable ==
    (rVariant = "list" /\ rProviders = DeployedProviders /\ RouterDone) =>
        \A k \in 1..Len(rProviders) :
            AllFailBefore(k) => k \in Range(rInvoked)

-----------------------------------------------------------------------------
(* The message counter of one conversation (SpecLedger) *)

\* C28: tag-message invocations run one after another on a new user; each
\* one that completes has written the row once, with messageCount one
\* higher, so after n completed invocations messageCount = n (an
\* invocation whose update is refused writes nothing and counts nothing)
C28_MessageCountIsCompletedInvocations ==
    /\ \A u \in DOMAIN conversations :
           conversations[u].messageCount = gUpdates
    /\ gRow.messageCount = gUpdates
    /\ gRow.messageCount \in {gPrev.messageCount, gPrev.messageCount + 1}

\* C28 happens: three invocations completed and one was refused
C28_Witness ==
    /\ gUpdates = 3
    /\ gCount = 4
    /\ gRow.messageCount = 3

-----------------------------------------------------------------------------
(* Monotonic fields under overlapping requests (SpecOverlap) *)

\* C27 (as claimed): however tag-message invocations on one user
\* interleave, each persisted state of the conversation has messageCount,
\* cumulativeScore and conversationCost at least those of the persisted
\* state before it
C27_MonotonicFieldsNeverDecrease ==
    [][\A u \in DOMAIN conversations :
          /\ conversations'[u].messageCount
                 >= conversations[u].messageCount
          /\ conversations'[u].cumulativeScore
                 >= conversations[u].cumulativeScore
          /\ DblGe(conversations'[u].conversationCost,
                   conversations[u].conversationCost)]_vars

-----------------------------------------------------------------------------
(* Stage and score of a persisted row (Spec) *)

\* C30 (as claimed): in every persisted conversation state the stage is
\* deriveStage(currentScore), one of the stages deriveStage produces
C30_StageDerivedFromScore ==
    \A u \in DOMAIN conversations :
        /\ conversations[u].stage
               = deriveStage(conversations[u].currentScore)
        /\ conversations[u].stage \in Range(StageOrder)

-----------------------------------------------------------------------------
(* The events of one tag-message invocation (Spec) *)

\* the events of a type among those an invocation has appended
AppendedOf(s, type) ==
    SelectSeq(inv[s].appended, LAMBDA e : e.type = type)

\* the stage the engine derives for the invocation: from the score read at
\* its start and the signals of the classification it uses
DerivedStage(s) ==
    deriveStage(updateScore(inv[s].conversation.currentScore,
                            inv[s].classification.signals))

\* the stage step of execute is behind the invocation
PastStageStep(s) == inv[s].op = "tag" /\ inv[s].pc \in {"update", "done"}

\* C31: a tag-message invocation has appended a stage-changed event iff
\* the stage it derives differs from the stage it read at its start; there
\* is at most one, from the stage read to the stage derived, which is the
\* stage the invocation persists
C31_StageChangeIffStageDiffers ==
    \A s \in TagSlots :
        LET changes == AppendedOf(s, "STAGE_CHANGE")
            c == inv[s].conversation
        IN  /\ Len(changes) <= 1
            /\ PastStageStep(s) =>
                   /\ (Len(changes) = 1) <=> (DerivedStage(s) # c.stage)
                   /\ Len(changes) = 1 =>
                          changes[1] =
                              Event(c.id, "STAGE_CHANGE",
                                    [from |-> c.stage,
                                     to |-> DerivedStage(s)])
            /\ inv[s].pc = "done" => RowOf(s).stage = DerivedStage(s)

\* C31 happens: an invocation that read stage "analysis" has completed
\* with one stage-changed event, and the row holds the event's to value
C31_Witness ==
    \E s \in TagSlots :
        /\ inv[s].pc = "done"
        /\ inv[s].conversation.stage = "analysis"
        /\ Len(AppendedOf(s, "STAGE_CHANGE")) = 1
        /\ RowOf(s).stage = AppendedOf(s, "STAGE_CHANGE")[1].metadata.to
        /\ RowOf(s).stage # "analysis"

\* the signals step of execute is behind the invocation
PastSignalsStep(s) ==
    inv[s].op = "tag" /\ inv[s].pc \in {"appendStage", "update", "done"}

\* C32: a tag-message invocation has appended a signals-detected event iff
\* the classification it uses has at least one signal; the event carries
\* exactly that list; an invocation whose classification is the degraded
\* one (the router rejected) appends none
C32_SignalsEventIffSignals ==
    \A s \in TagSlots :
        LET detected == AppendedOf(s, "SIGNALS_DETECTED")
        IN  /\ Len(detected) <= 1
            /\ PastSignalsStep(s) =>
                   /\ (Len(detected) = 1) <=>
                          (Len(inv[s].classification.signals) > 0)
                   /\ Len(detected) = 1 =>
                          detected[1] =
                              Event(inv[s].conversation.id,
                                    "SIGNALS_DETECTED",
                                    [signals |->
                                        inv[s].classification.signals])
            /\ inv[s].routerThrew => Len(detected) = 0

\* C32 happens: an invocation classified with two signals has completed
\* with one signals-detected event carrying both, after an earlier
\* request whose message is in the log without one
C32_Witness ==
    \E s \in TagSlots :
        /\ inv[s].pc = "done"
        /\ Len(AppendedOf(s, "SIGNALS_DETECTED")) = 1
        /\ AppendedOf(s, "SIGNALS_DETECTED")[1].metadata.signals
               = <<"POSITIVE_EMOTION", "OBJECTION">>
        /\ Len(SelectSeq(events, LAMBDA e : e.type = "MESSAGE")) = 2
        /\ Len(SelectSeq(events,
                         LAMBDA e : e.type = "SIGNALS_DETECTED")) = 1

\* the place of an event type in the order of execute's appends
EventRank(type) ==
    CASE type = "MESSAGE" -> 1
      [] type = "SIGNALS_DETECTED" -> 2
      [] type = "STAGE_CHANGE" -> 3
      [] OTHER -> 4

\* the invocation has not reached the classifier
BeforeClassify(s) == inv[s].pc \in {"find", "create", "appendMessage"}

\* the invocation has the row it read and has not completed
Running(s) ==
    inv[s].pc \in {"appendMessage", "classify", "appendSignals",
                   "appendStage", "update"}

\* C33: a tag-message invocation appends its one message-received event,
\* with the raw message, before the classifier is called, so it is in the
\* log whether the classification succeeds or degrades; its events come in
\* the order message-received, signals-detected, stage-changed; and the
\* row is still as the invocation read it until all of them are appended
C33_TagEventOrder ==
    \A s \in TagSlots :
        LET ap == inv[s].appended
        IN  /\ \A i \in 1..Len(ap) : ap[i] \in Range(events)
            /\ \A i, j \in 1..Len(ap) :
                   i < j => EventRank(ap[i].type) < EventRank(ap[j].type)
            /\ BeforeClassify(s) => ap = <<>>
            /\ inv[s].pc \in {"classify", "appendSignals", "appendStage",
                              "update", "done"} =>
                   /\ Len(ap) >= 1
                   /\ ap[1] = Event(inv[s].conversation.id, "MESSAGE",
                                    [content |-> inv[s].message])
            /\ Running(s) => RowOf(s) = inv[s].conversation

\* C33 happens: an invocation has appended all three events, in order, and
\* is about to update the row, after an earlier request whose message is
\* the first event of the log
C33_Witness ==
    \E s \in TagSlots :
        /\ inv[s].pc = "update"
        /\ Len(inv[s].appended) = 3
        /\ inv[s].appended[3].type = "STAGE_CHANGE"
        /\ Len(events) > 3
        /\ events[1].type = "MESSAGE"

-----------------------------------------------------------------------------
(* Store failures during execute (Spec) *)

\* C34: when an awaited store call of TagMessage.execute or
\* GenerateResponse.execute rejects, the invocation ends there with that
\* error as its outcome, the store is left as it was, and the invocation
\* takes no further step: its slot changes again only when a new request
\* arrives
C34_PersistenceFailureIsFatal ==
    [][/\ failures' # failures =>
              \E s \in DOMAIN inv :
                  /\ inv[s].pc \in PersistenceSteps
                  /\ inv'[s].pc = "failed"
                  /\ inv'[s].result = Throw(PersistenceError)
                  /\ events' = events
                  /\ conversations' = conversations
       /\ \A s \in DOMAIN inv :
              inv[s].pc = "failed" =>
                  \/ inv'[s] = inv[s]
                  \/ inv'[s].pc = "find" /\ started' = started + 1]_vars

\* C34 happens: a tag-message invocation whose update rejected has failed
\* with the store's error, its events appended and the row as it read it
C34_Witness ==
    \E s \in TagSlots :
        /\ inv[s].pc = "failed"
        /\ failures = 1
        /\ inv[s].result = Throw(PersistenceError)
        /\ inv[s].classification # Nil
        /\ Len(inv[s].appended) >= 2
        /\ RowOf(s) = inv[s].conversation

-----------------------------------------------------------------------------
(* Events and their conversations (SpecRoutes) *)

\* the ids of the conversations in the store
ConversationIds == {conversations[u].id : u \in DOMAIN conversations}

\* C35 (as claimed): every event in the log carries the id of a
\* conversation of the store (rows are never deleted, so a conversation
\* that exists at the append exists ever after)
C35_EventsBelongToConversations ==
    \A i \in 1..Len(events) : events[i].conversationId \in ConversationIds

-----------------------------------------------------------------------------
(* Replaying the stage from the log (SpecOverlap) *)


\* the stage a conversation is created with
InitialStage == NewConversation(0, "none").stage

\* C36 (as claimed): after any sequence of tag-message invocations, also
\* ones whose update fails and ones that overlap on a user, the
\* stage-changed events of a conversation form a chain from its initial
\* stage to its persisted stage
C36_StageChangesChain ==
    Quiescent =>
        \A u \in DOMAIN conversations :
            LET changes == StageChangesOf(conversations[u].id)
                n == Len(changes)
            IN  n > 0 =>
                    /\ changes[1].metadata.from = InitialStage
                    /\ \A i \in 2..n :
                           changes[i].metadata.from
                               = changes[i - 1].metadata.to
                    /\ changes[n].metadata.to = conversations[u].stage

-----------------------------------------------------------------------------
(* Stage events without a change of score (Spec) *)

\* C37 (as claimed): a tag-message invocation whose new score equals the
\* score it read appends no stage-changed event, from whatever row it
\* starts, the freshly created one included
C37_NoStageChangeWithoutScoreChange ==
    \A s \in TagSlots :
        (/\ PastStageStep(s)
         /\ updateScore(inv[s].conversation.currentScore,
                        inv[s].classification.signals)
                = inv[s].conversation.currentScore) =>
            Len(AppendedOf(s, "STAGE_CHANGE")) = 0

-----------------------------------------------------------------------------
(* TenantManager: a Map from keys to Tenant objects.  A tenant is stored    *)
(* under its id and under its slug; both keys hold a reference to the same  *)
(* object until one of them is set to another object.  A manager is the     *)
(* pair of the Map and the objects, [map, heap].                            *)

MaxTenantCalls == 4

\* `tenant_${Date.now()}_${Math.random()...}`: the id made at the n-th call
TenantIdNames ==
    <<"tenant_1", "tenant_2", "tenant_3", "tenant_4", "tenant_5", "tenant_6">>

\* this.tenants.get(key): the object the key refers to, or undefined
TenantManager_get(tm, key) ==
    IF key \in DOMAIN tm.map THEN tm.heap[tm.map[key]] ELSE Nil

\* { ...tenant, ...data }
Spread(tenant, data) ==
    [f \in DOMAIN tenant \cup DOMAIN data |->
        IF f \in DOMAIN data THEN data[f] ELSE tenant[f]]

\* createTenant(data): one new object, set under the new id and under
\* data.slug (createdAt, a timestamp, is left out of the model)
TenantManager_createTenant(tm, data, id) ==
    LET ref == Len(tm.heap) + 1
        tenant == Spread(data, [id |-> id])
    IN  [map |-> MapSet(MapSet(tm.map, id, ref), data.slug, ref),
         heap |-> Append(tm.heap, tenant)]

\* updateTenant(id, data): a new object { ...tenant, ...data } is set under
\* id, and under the slug only if the slug has changed
TenantManager_updateTenant(tm, id, data) ==
    IF id \notin DOMAIN tm.map THEN tm
    ELSE LET tenant == tm.heap[tm.map[id]]
             updated == Spread(tenant, data)
             ref == Len(tm.heap) + 1
             byId == MapSet(tm.map, id, ref)
         IN  [map |-> IF tenant.slug # updated.slug
                      THEN MapSet(byId, updated.slug, ref)
                      ELSE byId,
              heap |-> Append(tm.heap, updated)]

\* deleteTenant(id): both keys of the object found under id are deleted
TenantManager_deleteTenant(tm, id) ==
    IF id \notin DOMAIN tm.map \/ tm.heap[tm.map[id]].id = "default"
    THEN tm
    ELSE [map |-> MapDelete(MapDelete(tm.map, id),
                            tm.heap[tm.map[id]].slug),
          heap |-> tm.heap]

\* tenant.<field> = value; this.tenants.set(tenantId, tenant): the object
\* found under tenantId is changed in place
TenantManager_assign(tm, tenantId, field, value) ==
    IF tenantId \notin DOMAIN tm.map THEN tm
    ELSE [map |-> tm.map,
          heap |-> [tm.heap EXCEPT ![tm.map[tenantId]] =
                       Spread(@, (field :> value))]]

TenantManager_setDefaultConstitution(tm, tenantId, constitutionId) ==
    TenantManager_assign(tm, tenantId, "constitutionId", constitutionId)

TenantManager_configureWhatsApp(tm, tenantId, config) ==
    TenantManager_assign(tm, tenantId, "whatsapp", config)

TenantManager_configureBitrix(tm, tenantId, webhookUrl) ==
    TenantManager_assign(tm, tenantId, "bitrix", [webhookUrl |-> webhookUrl])

\* tenant.limits = { ...tenant.limits, ...limits }
TenantManager_setLimits(tm, tenantId, limits) ==
    IF tenantId \notin DOMAIN tm.map THEN tm
    ELSE TenantManager_assign(tm, tenantId, "limits",
             Spread(tm.heap[tm.map[tenantId]].limits, limits))

-----------------------------------------------------------------------------
(* SpecTenants: the tenant routes of main.ts on the TenantManager           *)
(* singleton.  Each route finds the tenant by its slug and calls the        *)
(* manager with the id of the object found.                                 *)

TenantSlugs == {"acme", "beta"}

\* request bodies of PUT /tenant/:slug
UpdateBodies ==
    {[name |-> "Acme Corp"], [name |-> ""], [constitutionId |-> ""],
     [active |-> FALSE]}

\* body.field || fallback, for a field that holds a string when it is
\* there: the empty string is falsy, as is the missing field
OrElse(body, field, fallback) ==
    IF field \in DOMAIN body /\ body[field] # ""
    THEN body[field] ELSE fallback

\* body.field !== undefined ? body.field : fallback
Given(body, field, fallback) ==
    IF field \in DOMAIN body THEN body[field] ELSE fallback

TenantManagerNow == [map |-> tenants, heap |-> tenantHeap]

\* the manager after a call
TenantManagerBecomes(tm) ==
    /\ tenants' = tm.map
    /\ tenantHeap' = tm.heap
    /\ tenantCalls' = tenantCalls + 1
    /\ constitutions' = constitutions

\* the routes' lookup: tenantManager.getTenantBySlug(slug), found
FoundBySlug(slug) ==
    /\ tenantCalls < MaxTenantCalls
    /\ slug \in DOMAIN tenants

TenantsInit ==
    /\ fPc = "input" /\ fCurrent = 0 /\ fSignals = <<>>
    /\ fScore = 0 /\ fStage = "triage"
    /\ TInit /\ GInit /\ KInit /\ PInit /\ QInit
    /\ TenantManagerInit
    /\ constitutions \in ConstitutionSets

\* POST /tenant: 400 if the slug exists, else createTenant({ ... })
CreateTenant(name, slug) ==
    /\ tenantCalls < MaxTenantCalls
    /\ slug \notin DOMAIN tenants
    /\ TenantManagerBecomes(
           TenantManager_createTenant(TenantManagerNow,
               [name |-> name, slug |-> slug,
                constitutionId |-> "conversational-programming",
                whatsapp |-> Nil, bitrix |-> Nil,
                limits |-> DefaultTenant.limits,
                settings |-> <<>>, active |-> TRUE],
               TenantIdNames[tenantCalls + 1]))
    /\ UNCHANGED <<fPc, fCurrent, fSignals, fScore, fStage, tTrust, tPrev,
                   tSignals, gvars, kvars, pvars, qvars, rvars, svars>>

\* PUT /tenant/:slug: updateTenant(tenant.id, { name: name || tenant.name,
\* constitutionId: ..., limits: ..., active: ... })
UpdateTenant(slug, body) ==
    /\ FoundBySlug(slug)
    /\ LET tenant == TenantManager_get(TenantManagerNow, slug)
           data ==
               [name |-> OrElse(body, "name", tenant.name),
                constitutionId |->
                    OrElse(body, "constitutionId", tenant.constitutionId),
                limits |-> IF "limits" \in DOMAIN body
                           THEN Spread(tenant.limits, body.limits)
                           ELSE tenant.limits,
                active |-> Given(body, "active", tenant.active)]
       IN  TenantManagerBecomes(
               TenantManager_updateTenant(TenantManagerNow, tenant.id, data))
    /\ UNCHANGED <<fPc, fCurrent, fSignals, fScore, fStage, tTrust, tPrev,
                   tSignals, gvars, kvars, pvars, qvars, rvars, svars>>

\* DELETE /tenant/:slug: deleteTenant(tenant.id)
DeleteTenant(slug) ==
    /\ FoundBySlug(slug)
    /\ TenantManagerBecomes(
           TenantManager_deleteTenant(TenantManagerNow,
               TenantManager_get(TenantManagerNow, slug).id))
    /\ UNCHANGED <<fPc, fCurrent, fSignals, fScore, fStage, tTrust, tPrev,
                   tSignals, gvars, kvars, pvars, qvars, rvars, svars>>

\* request bodies of POST /tenant/:slug/constitution
RequestedConstitutions == {"talkme-tutor", "sales"}

\* POST /tenant/:slug/constitution: 404 without the tenant, 400 when the
\* ConstitutionManager has not loaded the id (the manager is not called),
\* else setDefaultConstitution(tenant.id, constitutionId)
SetDefaultConstitution(slug, constitutionId) ==
    /\ FoundBySlug(slug)
    /\ constitutionId \in constitutions
    /\ TenantManagerBecomes(
           TenantManager_setDefaultConstitution(TenantManagerNow,
               TenantManager_get(TenantManagerNow, slug).id,
               constitutionId))
    /\ UNCHANGED <<fPc, fCurrent, fSignals, fScore, fStage, tTrust, tPrev,
                   tSignals, gvars, kvars, pvars, qvars, rvars, svars>>

\* POST /tenant/:slug/whatsapp: configureWhatsApp(tenant.id, { ... })
ConfigureWhatsApp(slug) ==
    /\ FoundBySlug(slug)
    /\ TenantManagerBecomes(
           TenantManager_configureWhatsApp(TenantManagerNow,
               TenantManager_get(TenantManagerNow, slug).id,
               [phoneNumberId |-> "555", accessToken |-> "token"]))
    /\ UNCHANGED <<fPc, fCurrent, fSignals, fScore, fStage, tTrust, tPrev,
                   tSignals, gvars, kvars, pvars, qvars, rvars, svars>>

\* POST /tenant/:slug/bitrix: configureBitrix(tenant.id, webhookUrl)
ConfigureBitrix(slug) ==
    /\ FoundBySlug(slug)
    /\ TenantManagerBecomes(
           TenantManager_configureBitrix(TenantManagerNow,
               TenantManager_get(TenantManagerNow, slug).id, "https://b24"))
    /\ UNCHANGED <<fPc, fCurrent, fSignals, fScore, fStage, tTrust, tPrev,
                   tSignals, gvars, kvars, pvars, qvars, rvars, svars>>

\* setLimits(tenant.id, { dailyTokens })
SetLimits(slug) ==
    /\ FoundBySlug(slug)
    /\ TenantManagerBecomes(
           TenantManager_setLimits(TenantManagerNow,
               TenantManager_get(TenantManagerNow, slug).id,
               [dailyTokens |-> 2000]))
    /\ UNCHANGED <<fPc, fCurrent, fSignals, fScore, fStage, tTrust, tPrev,
                   tSignals, gvars, kvars, pvars, qvars, rvars, svars>>

TenantsNext ==
    \/ \E slug \in TenantSlugs : CreateTenant("Acme", slug)
    \/ \E slug \in TenantSlugs, body \in UpdateBodies :
           UpdateTenant(slug, body)
    \/ \E slug \in TenantSlugs \cup {"default"} : DeleteTenant(slug)
    \/ \E slug \in TenantSlugs, constitutionId \in RequestedConstitutions :
           SetDefaultConstitution(slug, constitutionId)
    \/ \E slug \in TenantSlugs : ConfigureWhatsApp(slug)
    \/ \E slug \in TenantSlugs : ConfigureBitrix(slug)
    \/ \E slug \in TenantSlugs : SetLimits(slug)

InitTenants == TenantsInit /\ RInit /\ SInit

SpecTenants == InitTenants /\ [][TenantsNext]_vars

\* C38 (as claimed): after any sequence of calls on the manager, every
\* tenant a key resolves to is stored under its id and under its slug, and
\* the two entries hold the same field values; so a lookup by slug sees an
\* update made by id, and after a delete neither key resolves
C38_TenantIndexConsistent ==
    \A k \in DOMAIN tenants :
        LET t == TenantManager_get(TenantManagerNow, k)
        IN  /\ t.id \in DOMAIN tenants
            /\ t.slug \in DOMAIN tenants
            /\ TenantManager_get(TenantManagerNow, t.id)
                   = TenantManager_get(TenantManagerNow, t.slug)

-----------------------------------------------------------------------------
(* SpecQuota: requests to POST /whatsapp/chat, and the passing of time.     *)
(* A behaviour starts after earlier requests of the day have been served.   *)

MaxClock == 48

QuotaUsers == {"wa1", "wa2"}
Segments == {"venta", "cliente_activo", "lead_frio", "curioso"}
Ticks == {12, 24}

\* a store together with the route's Map of trackers
FreshQuotaStore ==
    [conversations |-> EmptyStore, events |-> <<>>, nextId |-> 1,
     served |-> 0, trackers |-> <<>>]

\* POST /whatsapp/chat run to completion at time `now`, without overlap
\* and with a store that works; t is what the Gemini adapter answers
RunWhatsappChat(store, userId, message, segment, t, now) ==
    LET r == checkTokenLimit(store.trackers, userId,
                             getUserCostLimit(userId, segment), now)
        checked == [store EXCEPT !.trackers = r.trackers, !.served = @ + 1]
        s1 == Store_findOrCreate(checked, WaUserIds[userId])
        id == s1.conversations[WaUserIds[userId]].id
    IN  IF RuleFound(messageLower(message))
        THEN [store EXCEPT !.served = @ + 1]
        ELSE IF ~r.result.allowed THEN checked
        ELSE Store_create(
                 Store_create(s1, WhatsappMessageEvent(id, message, segment)),
                 WhatsappResponseEvent(id, t))

\* the store after the requests of a script, served in order at time 0
RECURSIVE ServeChats(_, _)
ServeChats(store, chats) ==
    IF chats = <<>> THEN store
    ELSE LET next == RunWhatsappChat(store, Head(chats).userId, "precio",
                                     Head(chats).segment,
                                     [text |-> "reply", tokensUsed |-> 120],
                                     0)
         IN  IF next.served > store.served
             THEN ServeChats(next, Tail(chats))
             ELSE store

Chat(userId, segment) == [userId |-> userId, segment |-> segment]

\* requests of earlier in the day: wa2 has 900 tokens reserved after the
\* third, wa1 850 after the sixth and the whole quota after the seventh
EarlierChats ==
    <<Chat("wa2", "cliente_activo"), Chat("wa2", "cliente_activo"),
      Chat("wa2", "cliente_activo"), Chat("wa1", "cliente_activo"),
      Chat("wa1", "cliente_activo"), Chat("wa1", "venta"),
      Chat("wa1", "lead_frio")>>

QuotaStores ==
    {ServeChats(FreshQuotaStore, SubSeq(EarlierChats, 1, n)) :
         n \in {0, 3, 6, 7}}

QuotaInit ==
    /\ fPc = "input" /\ fCurrent = 0 /\ fSignals = <<>>
    /\ fScore = 0 /\ fStage = "triage"
    /\ TInit /\ GInit /\ KInit /\ PInit /\ MInit
    /\ clock = 0 /\ qCall = <<>>
    /\ providers = DeployedProviders
    /\ \E store \in QuotaStores :
          /\ conversations = store.conversations
          /\ events = store.events
          /\ userCostTracker = store.trackers
    /\ inv = [s \in Slots |-> IdleSlot]
    /\ started = 0
    /\ failures = 0

\* time passes
Tick(hours) ==
    /\ clock + hours <= MaxClock
    /\ clock' = clock + hours
    /\ UNCHANGED <<fPc, fCurrent, fSignals, fScore, fStage, tTrust, tPrev,
                   tSignals, gvars, kvars, pvars, mvars, userCostTracker,
                   qCall, rvars, svars>>

QuotaNext ==
    \/ \E s \in DOMAIN inv, userId \in QuotaUsers,
          message \in WhatsappMessages, segment \in Segments :
          WhatsappChat(s, userId, message, segment)
    \/ \E s \in DOMAIN inv : FindExisting(s)
    \/ \E s \in DOMAIN inv : FindMissing(s)
    \/ \E s \in DOMAIN inv : Create(s)
    \/ \E s \in DOMAIN inv : WhatsappLoad(s)
    \/ \E s \in DOMAIN inv : WhatsappGenerate(s)
    \/ \E s \in DOMAIN inv : WhatsappAppendMessage(s)
    \/ \E s \in DOMAIN inv : WhatsappAppendResponse(s)
    \/ \E hours \in Ticks : Tick(hours)

InitQuota == QuotaInit /\ RInit

SpecQuota == InitQuota /\ [][QuotaNext]_vars

\* C39: no user's daily counter exceeds maxTokensDaily; the last
\* checkTokenLimit call allowed its t tokens iff t <= maxTokensDaily minus
\* the counter (taken as 0 if the call reset it), added t to the counter
\* iff it allowed them and left the counter as it was if it refused; and
\* it reset the counter only if a full day had passed since the last reset
C39_DailyQuota ==
    /\ \A u \in DOMAIN userCostTracker :
           userCostTracker[u].dailyTokens \in 0..maxTokensDaily
    /\ qCall # <<>> =>
           LET before == qCall.before
               after == userCostTracker[qCall.userId]
               wasReset == after.lastReset # before.lastReset
               base == IF wasReset THEN 0 ELSE before.dailyTokens
           IN  /\ qCall.result.allowed
                      <=> (qCall.tokens <= maxTokensDaily - base)
               /\ qCall.result.allowed =>
                      after.dailyTokens = base + qCall.tokens
               /\ ~qCall.result.allowed =>
                      after.dailyTokens = before.dailyTokens
               /\ (wasReset \/ after.dailyTokens < before.dailyTokens) =>
                      qCall.now - before.lastReset >= HoursPerDay

\* C39 happens: a user who had used the whole daily quota asks again a day
\* later: the counter is reset and the request is allowed, while another
\* user's counter is within 150 tokens of the quota
C39_Witness ==
    /\ qCall # <<>>
    /\ qCall.before.dailyTokens = maxTokensDaily
    /\ qCall.result.allowed
    /\ userCostTracker[qCall.userId].dailyTokens = qCall.tokens
    /\ \E u \in DOMAIN userCostTracker :
           /\ u # qCall.userId
           /\ userCostTracker[u].dailyTokens > maxTokensDaily - 150

====
